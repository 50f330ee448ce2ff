--------------------------- MODULE EpollServerFast ---------------------------
(***************************************************************************)
(* sem-10-network-2/epoll_server_fast.c: a single thread echoes to many    *)
(* clients over non-blocking sockets and an edge-triggered epoll.          *)
(*                                                                         *)
(* A step of the server is one system call with the assignments that       *)
(* follow it, so that clients act between any two calls of a handler.  A   *)
(* connection's socket_state_t lives exactly while conn is "open".         *)
(***************************************************************************)
EXTENDS TcpSockets

CONSTANTS BufSize,   \* sizeof(socket_state_t.buf), 4096
          Listener   \* the listening socket, among the items of the epoll

ASSUME FastAssumption ==
    /\ BufSize \in Nat \ {0}
    /\ Listener \notin Conns

VARIABLES rdy,       \* epoll's ready list: items that saw an edge
          nospace,   \* a write met a full send buffer: space will be an edge
          pc,        \* loop, accept, write, read, exit
          batch,     \* events of the last epoll_wait not handled yet
          hup,       \* those of them reported with EPOLLHUP or EPOLLERR
          cur,       \* the client handle_client_until_eagain works for
          caller,    \* where it returns to: loop or accept
          buf, bufBegin, bufEnd  \* socket_state_t of every client

epollVars == <<rdy, nospace>>
loopVars == <<batch, hup>>
callVars == <<cur, caller>>
stateVars == <<buf, bufBegin, bufEnd>>
serverVars == <<pc, loopVars, callVars, stateVars>>
vars == <<tcpVars, epollVars, serverVars>>

Items == Conns \cup {Listener}

\* What the server holds for c, read and not written yet.
Pending(c) == SubSeq(buf[c], bufBegin[c] + 1, bufEnd[c])

TypeOK ==
    /\ TcpTypeOK
    /\ rdy \subseteq Items
    /\ nospace \in [Conns -> BOOLEAN]
    /\ pc \in {"loop", "accept", "write", "read", "exit"}
    /\ batch \subseteq Items
    /\ hup \subseteq Conns
    /\ cur \in Conns
    /\ caller \in {"loop", "accept"}
    /\ buf \in [Conns -> [1 .. BufSize -> Nat]]
    /\ bufBegin \in [Conns -> Nat]
    /\ bufEnd \in [Conns -> Nat]

Init ==
    /\ TcpInit
    /\ rdy = {}
    /\ nospace = [c \in Conns |-> FALSE]
    /\ pc = "loop"
    /\ batch = {}
    /\ hup = {}
    /\ cur \in Conns
    /\ caller = "loop"
    /\ buf = [c \in Conns |-> [i \in 1 .. BufSize |-> 0]]
    /\ bufBegin = [c \in Conns |-> 0]
    /\ bufEnd = [c \in Conns |-> 0]

-----------------------------------------------------------------------------
(* Edges: what a client does to a registered socket puts it on the list.   *)

Edge(i) == rdy' = rdy \cup ({i} \cap (Open \cup {Listener}))

ClientConnect(c) ==
    /\ pc # "exit"
    /\ Connect(c)
    /\ Edge(Listener)
    /\ UNCHANGED <<nospace, serverVars>>

ClientSend(c) == Send(c) /\ Edge(c) /\ UNCHANGED <<nospace, serverVars>>

ClientFinish(c) == Finish(c) /\ Edge(c) /\ UNCHANGED <<nospace, serverVars>>

ClientReset(c) == Reset(c) /\ Edge(c) /\ UNCHANGED <<nospace, serverVars>>

\* Space in the send buffer is an edge only after a write found none.
ClientReceive(c) ==
    /\ Receive(c)
    /\ IF nospace[c] /\ Len(sndq'[c]) <= SndLow
       THEN Edge(c) /\ nospace' = [nospace EXCEPT ![c] = FALSE]
       ELSE UNCHANGED epollVars
    /\ UNCHANGED serverVars

-----------------------------------------------------------------------------
(* run: wait for events, then handle them one by one.                      *)

Ready(i) == IF i = Listener THEN Backlog # {} ELSE Readable(i) \/ Writable(i)

\* Fewer connections than MAX_EPOLL_EVENTS: one call takes all that is ready.
EpollWait ==
    /\ pc = "loop" /\ batch = {}
    /\ batch' = {i \in rdy : Ready(i)}
    /\ batch' # {}
    /\ hup' = {c \in batch' \cap Conns : rst[c]}
    /\ rdy' = {}
    /\ UNCHANGED <<tcpVars, nospace, pc, callVars, stateVars>>

HandleConnEvent ==
    /\ pc = "loop" /\ Listener \in batch
    /\ batch' = batch \ {Listener}
    /\ pc' = "accept"
    /\ UNCHANGED <<tcpVars, epollVars, hup, callVars, stateVars>>

\* shutdown, close (which takes the socket out of the epoll) and free.
CloseConnection(c) ==
    /\ SockClose(c)
    /\ rdy' = rdy \ {c}
    /\ nospace' = [nospace EXCEPT ![c] = FALSE]
    /\ buf' = [buf EXCEPT ![c] = [i \in 1 .. BufSize |-> 0]]
    /\ bufBegin' = [bufBegin EXCEPT ![c] = 0]
    /\ bufEnd' = [bufEnd EXCEPT ![c] = 0]

HandleHangup(c) ==
    /\ pc = "loop" /\ c \in batch \cap hup
    /\ batch' = batch \ {c}
    /\ CloseConnection(c)
    /\ UNCHANGED <<pc, hup, callVars>>

\* handle_client_until_eagain writes while the buffer holds something, reads
\* otherwise.
Serve(c, from) ==
    /\ cur' = c
    /\ caller' = from
    /\ pc' = IF bufEnd'[c] # 0 THEN "write" ELSE "read"

HandleClientEvent(c) ==
    /\ pc = "loop" /\ c \in (batch \cap Conns) \ hup
    /\ batch' = batch \ {c}
    /\ UNCHANGED <<tcpVars, epollVars, hup, stateVars>>
    /\ Serve(c, "loop")

-----------------------------------------------------------------------------
(* accept_connections_until_eagain                                         *)

\* Faulty variant: one connection for each event of the listening socket.
AcceptOne(c) ==
    /\ pc = "accept"
    /\ c \in Backlog
    /\ conn' = [conn EXCEPT ![c] = "open"]
    /\ rdy' = rdy \cup {c}
    /\ bufBegin' = [bufBegin EXCEPT ![c] = 0]
    /\ bufEnd' = [bufEnd EXCEPT ![c] = 0]
    /\ Serve(c, "loop")
    /\ UNCHANGED <<sent, fin, rst, rcvq, sndq, got, nospace, loopVars, buf>>

\* accept, fcntl, malloc and EPOLL_CTL_ADD, which lists a socket that is
\* ready, as one with an empty send buffer is; then the client is served.
Accept(c) ==
    /\ pc = "accept"
    /\ c \in Backlog
    /\ conn' = [conn EXCEPT ![c] = "open"]
    /\ rdy' = rdy \cup {c}
    /\ bufBegin' = [bufBegin EXCEPT ![c] = 0]
    /\ bufEnd' = [bufEnd EXCEPT ![c] = 0]
    /\ Serve(c, "accept")
    /\ UNCHANGED <<sent, fin, rst, rcvq, sndq, got, nospace, loopVars, buf>>

AcceptAgain ==
    /\ pc = "accept"
    /\ Backlog = {}
    /\ pc' = "loop"
    /\ UNCHANGED <<tcpVars, epollVars, loopVars, callVars, stateVars>>

\* accept(2) fails for want of descriptors, of this process or of all, which
\* it looks for before it looks for a connection; err ends the server.
AcceptError ==
    /\ pc = "accept"
    /\ SockExit
    /\ pc' = "exit"
    /\ rdy' = {}
    /\ UNCHANGED <<nospace, loopVars, callVars, stateVars>>

-----------------------------------------------------------------------------
(* handle_client_until_eagain for the client cur                           *)

\* What every variant of client_write does first.
Taken(c, n) ==
    /\ pc = "write" /\ c = cur /\ ~rst[c]
    /\ n \in 1 .. bufEnd[c] - bufBegin[c]
    /\ n <= SndCap - Len(sndq[c])
    /\ SockWrite(c, SubSeq(buf[c], bufBegin[c] + 1, bufBegin[c] + n))
    /\ UNCHANGED <<epollVars, loopVars, callVars, buf>>

Drained(c, n) == bufBegin[c] + n = bufEnd[c]

\* Faulty variant: a partial write does not move buf_begin.
RewriteAll(c, n) ==
    /\ Taken(c, n)
    /\ UNCHANGED bufBegin
    /\ bufEnd' = [bufEnd EXCEPT ![c] = IF Drained(c, n) THEN 0 ELSE @]
    /\ pc' = IF Drained(c, n) THEN "read" ELSE "write"

\* Faulty variant: what a partial write left is forgotten.
ForgetRest(c, n) ==
    /\ Taken(c, n)
    /\ bufBegin' = [bufBegin EXCEPT ![c] = 0]
    /\ bufEnd' = [bufEnd EXCEPT ![c] = 0]
    /\ pc' = "read"

\* Faulty variant: the drained buffer keeps its buf_begin.
KeepBegin(c, n) ==
    /\ Taken(c, n)
    /\ bufBegin' = [bufBegin EXCEPT ![c] = @ + n]
    /\ bufEnd' = [bufEnd EXCEPT ![c] = IF Drained(c, n) THEN 0 ELSE @]
    /\ pc' = IF Drained(c, n) THEN "read" ELSE "write"

\* Faulty variant: the handler returns when it has drained the buffer.
WriteAndReturn(c, n) ==
    /\ Taken(c, n)
    /\ bufBegin' = [bufBegin EXCEPT ![c] = IF Drained(c, n) THEN 0 ELSE @ + n]
    /\ bufEnd' = [bufEnd EXCEPT ![c] = IF Drained(c, n) THEN 0 ELSE @]
    /\ pc' = IF Drained(c, n) THEN caller ELSE "write"

\* client_write: the kernel takes some of the bytes.
ClientWrite(c, n) ==
    /\ Taken(c, n)
    /\ IF Drained(c, n)
       THEN /\ bufBegin' = [bufBegin EXCEPT ![c] = 0]
            /\ bufEnd' = [bufEnd EXCEPT ![c] = 0]
            /\ pc' = "read"
       ELSE /\ bufBegin' = [bufBegin EXCEPT ![c] = @ + n]
            /\ UNCHANGED <<bufEnd, pc>>

WriteAgain(c) ==
    /\ pc = "write" /\ c = cur /\ ~rst[c]
    /\ Len(sndq[c]) = SndCap
    /\ nospace' = [nospace EXCEPT ![c] = TRUE]
    /\ pc' = caller
    /\ UNCHANGED <<tcpVars, rdy, loopVars, callVars, stateVars>>

\* client_read into the whole of buf.
ClientRead(c, n) ==
    /\ pc = "read" /\ c = cur
    /\ n \in 1 .. BufSize /\ n <= Len(rcvq[c])
    /\ SockRead(c, n)
    /\ buf' = [buf EXCEPT ![c] =
                 [i \in 1 .. BufSize |-> IF i <= n THEN rcvq[c][i] ELSE @[i]]]
    /\ bufEnd' = [bufEnd EXCEPT ![c] = @ + n]
    /\ pc' = "write"
    /\ UNCHANGED <<epollVars, loopVars, callVars, bufBegin>>

ReadAgain(c) ==
    /\ pc = "read" /\ c = cur /\ ~Readable(c)
    /\ pc' = caller
    /\ UNCHANGED <<tcpVars, epollVars, loopVars, callVars, stateVars>>

\* End of stream, or an error of read or write.
Ended(c) ==
    /\ c = cur
    /\ \/ pc = "read" /\ rcvq[c] = <<>> /\ (fin[c] \/ rst[c])
       \/ pc = "write" /\ rst[c]

\* Faulty variant: the connection is closed and the handler goes on.
DisconnectAndGoOn(c) ==
    /\ Ended(c)
    /\ CloseConnection(c)
    /\ pc' = "read"
    /\ UNCHANGED <<loopVars, callVars>>

\* Faulty variant: the handler returns and nobody closes the connection.
DisconnectNever(c) ==
    /\ Ended(c)
    /\ pc' = caller
    /\ UNCHANGED <<tcpVars, epollVars, loopVars, callVars, stateVars>>

\* Faulty variant: the end of stream is acted on before what precedes it.
DisconnectEarly(c) ==
    /\ Ended(c) \/ (c = cur /\ pc = "read" /\ fin[c])
    /\ CloseConnection(c)
    /\ pc' = caller
    /\ UNCHANGED <<loopVars, callVars>>

\* The handler closes the connection or has its caller do so.
Disconnect(c) ==
    /\ Ended(c)
    /\ CloseConnection(c)
    /\ pc' = caller
    /\ UNCHANGED <<loopVars, callVars>>

-----------------------------------------------------------------------------
Client(c) ==
    ClientConnect(c) \/ ClientSend(c) \/ ClientFinish(c) \/ ClientReset(c)
        \/ ClientReceive(c)

Handler(c) ==
    \/ HandleHangup(c) \/ HandleClientEvent(c) \/ Accept(c)
    \/ WriteAgain(c) \/ ReadAgain(c) \/ Disconnect(c)
    \/ \E n \in 1 .. BufSize : ClientWrite(c, n) \/ ClientRead(c, n)

Server ==
    \/ EpollWait \/ HandleConnEvent \/ AcceptAgain \/ AcceptError
    \/ \E c \in Conns : Handler(c)

Next == Server \/ \E c \in Conns : Client(c)

Spec == Init /\ [][Next]_vars

\* The kernel schedules the server's thread, and a responsive client reads
\* the echo at hand, as bench.go and netcat do; the others need not.
FairSpec ==
    /\ Spec
    /\ WF_vars(Server)
    /\ \A c \in Responsive : WF_vars(ClientReceive(c))

-----------------------------------------------------------------------------
(* Properties                                                              *)

\* What the client has, what is on its way to it, what socket_state_t holds
\* and what the server has yet to read.
Held(c) == got[c] \o sndq[c] \o Pending(c) \o rcvq[c]

\* They are, in this order, the bytes the client sent: none lost, repeated or
\* swapped by client_read, by a partial client_write or by the reset of
\* buf_begin and buf_end.
StreamIntact ==
    \A c \in Conns : ~rst[c] /\ conn[c] \notin {"aborted", "dead"} =>
        Held(c) = First(sent[c])

\* The assertion of client_read (buf_begin == 0), with what makes it enough:
\* the buffer it reads into is empty, so that buf_end stays within buf.
ReadIntoEmptyBuffer ==
    /\ pc = "read" => bufBegin[cur] = 0 /\ bufEnd[cur] = 0
    /\ \A c \in Conns : bufBegin[c] <= bufEnd[c] /\ bufEnd[c] <= BufSize

\* Every pointer the server is about to use is to a live socket_state_t: the
\* one of the running handler and those of the events not handled yet.
NoUseAfterFree ==
    /\ pc \in {"write", "read"} => conn[cur] = "open"
    /\ pc # "exit" => batch \cap Conns \subseteq Open

\* A client the server has something to do for is on the ready list, in the
\* events at hand, or being served: edge-triggered epoll reports nothing
\* twice, so one that is not there would be forgotten.
Served(c) == c \in rdy \cup batch \/ (pc \in {"write", "read"} /\ c = cur)
NoLostEdge ==
    /\ \A c \in Open :
          \/ Served(c)
          \/ rst[c] = FALSE /\ bufEnd[c] = 0 /\ ~Readable(c)
          \/ rst[c] = FALSE /\ bufEnd[c] # 0 /\ nospace[c] /\ ~Writable(c)
    /\ Backlog # {} =>
          \/ Listener \in rdy \cup batch
          \/ pc = "accept"
          \/ pc \in {"write", "read"} /\ caller = "accept"

=============================================================================
