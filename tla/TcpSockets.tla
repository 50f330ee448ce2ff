----------------------------- MODULE TcpSockets -----------------------------
(***************************************************************************)
(* The TCP connections every echo server of the repository is written      *)
(* against, and the clients at their far end.                              *)
(*                                                                         *)
(* A stream is abstracted to the positions of its bytes: the i-th byte a   *)
(* client sends is the number i, so a lost, repeated or reordered byte     *)
(* shows in every queue.  Bytes in flight are not told apart from bytes    *)
(* the sender has not sent yet, nor from bytes the receiver's kernel holds *)
(***************************************************************************)
EXTENDS Naturals, Sequences, FiniteSets

CONSTANTS Conns,    \* the connections the clients may open
          MaxSent,  \* bound: bytes a client sends on one connection
          RcvCap,   \* capacity of a receive buffer of the server's kernel
          SndCap,   \* capacity of a send buffer of the server's kernel
          SndLow,   \* a full send buffer is writable again at this fill
          Responsive  \* the clients that keep reading the echo

ASSUME SocketAssumption ==
    /\ MaxSent \in Nat
    /\ RcvCap \in Nat \ {0}
    /\ SndCap \in Nat \ {0}
    /\ SndLow \in 0 .. SndCap - 1
    /\ Responsive \subseteq Conns

VARIABLES conn,  \* the server's end: new, backlog (to accept), open, closed,
                \* aborted (closed with bytes unread), dead (server exited)
          sent,  \* how many bytes the client has sent
          fin,   \* the client has shut its sending side down
          rst,   \* the connection was reset
          rcvq,  \* bytes that wait for the server's read
          sndq,  \* bytes the server has written, not yet with the client
          got    \* bytes the client has read

tcpVars == <<conn, sent, fin, rst, rcvq, sndq, got>>

Open == {c \in Conns : conn[c] = "open"}
Backlog == {c \in Conns : conn[c] = "backlog"}

\* The first n bytes of any stream.
First(n) == [i \in 1 .. n |-> i]

TcpTypeOK ==
    /\ conn \in [Conns ->
                  {"new", "backlog", "open", "closed", "aborted", "dead"}]
    /\ sent \in [Conns -> 0 .. MaxSent]
    /\ fin \in [Conns -> BOOLEAN]
    /\ rst \in [Conns -> BOOLEAN]
    /\ rcvq \in [Conns -> Seq(Nat)]
    /\ sndq \in [Conns -> Seq(Nat)]
    /\ got \in [Conns -> Seq(Nat)]
    /\ \A c \in Conns : Len(rcvq[c]) <= RcvCap /\ Len(sndq[c]) <= SndCap

TcpInit ==
    /\ conn = [c \in Conns |-> "new"]
    /\ sent = [c \in Conns |-> 0]
    /\ fin = [c \in Conns |-> FALSE]
    /\ rst = [c \in Conns |-> FALSE]
    /\ rcvq = [c \in Conns |-> <<>>]
    /\ sndq = [c \in Conns |-> <<>>]
    /\ got = [c \in Conns |-> <<>>]

-----------------------------------------------------------------------------
\* The clients.

Connect(c) ==
    /\ conn[c] = "new"
    /\ conn' = [conn EXCEPT ![c] = "backlog"]
    /\ UNCHANGED <<sent, fin, rst, rcvq, sndq, got>>

Send(c) ==
    /\ conn[c] \in {"backlog", "open"}
    /\ ~fin[c] /\ ~rst[c]
    /\ sent[c] < MaxSent
    /\ Len(rcvq[c]) < RcvCap
    /\ sent' = [sent EXCEPT ![c] = @ + 1]
    /\ rcvq' = [rcvq EXCEPT ![c] = Append(@, sent[c] + 1)]
    /\ UNCHANGED <<conn, fin, rst, sndq, got>>

\* The client closes, or shuts its sending side down as netcat -N does.
Finish(c) ==
    /\ conn[c] \in {"backlog", "open"}
    /\ ~fin[c] /\ ~rst[c]
    /\ fin' = [fin EXCEPT ![c] = TRUE]
    /\ UNCHANGED <<conn, sent, rst, rcvq, sndq, got>>

\* The client goes away with bytes of the echo unread, as tcp_client always
\* does, or is killed.  What the server has yet to read stays readable.
Reset(c) ==
    /\ conn[c] \in {"backlog", "open"}
    /\ ~rst[c]
    /\ rst' = [rst EXCEPT ![c] = TRUE]
    /\ sndq' = [sndq EXCEPT ![c] = <<>>]
    /\ UNCHANGED <<conn, sent, fin, rcvq, got>>

\* The client reads a byte of the echo.
Receive(c) ==
    /\ sndq[c] # <<>>
    /\ got' = [got EXCEPT ![c] = Append(@, Head(sndq[c]))]
    /\ sndq' = [sndq EXCEPT ![c] = Tail(@)]
    /\ UNCHANGED <<conn, sent, fin, rst, rcvq>>

-----------------------------------------------------------------------------
\* The system calls of a server, as conjuncts of its actions.

Readable(c) == rcvq[c] # <<>> \/ fin[c] \/ rst[c]
Writable(c) == Len(sndq[c]) <= SndLow \/ rst[c]

\* read(2) hands over the next n bytes.
SockRead(c, n) ==
    /\ rcvq' = [rcvq EXCEPT ![c] = SubSeq(@, n + 1, Len(@))]
    /\ UNCHANGED <<conn, sent, fin, rst, sndq, got>>

\* write(2) takes the bytes of data.
SockWrite(c, data) ==
    /\ sndq' = [sndq EXCEPT ![c] = @ \o data]
    /\ UNCHANGED <<conn, sent, fin, rst, rcvq, got>>

\* shutdown(2) and close(2): bytes written are still delivered, unless bytes
\* received were never read, which makes the close a reset by the server.
SockClose(c) ==
    LET lossy == rcvq[c] # <<>> /\ ~rst[c] IN
    /\ conn' = [conn EXCEPT ![c] = IF lossy THEN "aborted" ELSE "closed"]
    /\ sndq' = [sndq EXCEPT ![c] = IF lossy THEN <<>> ELSE @]
    /\ UNCHANGED <<sent, fin, rst, rcvq, got>>

\* The server process ends: its connections, accepted or not, die with it.
SockExit ==
    /\ conn' = [c \in Conns |->
                  IF conn[c] \in {"backlog", "open"} THEN "dead" ELSE conn[c]]
    /\ UNCHANGED <<sent, fin, rst, rcvq, sndq, got>>

-----------------------------------------------------------------------------
(* The service these connections are seen to implement, as refinement      *)
(* mapping: what is put out is what the client has and what is under way.  *)

PhaseOf(c) ==
    CASE conn[c] = "new" -> "idle"
      [] conn[c] # "new" /\ (rst[c] \/ conn[c] \in {"aborted", "dead"})
            -> "broken"
      [] conn[c] = "closed" /\ ~rst[c] -> "closed"
      [] conn[c] \in {"backlog", "open"} /\ ~rst[c] /\ fin[c] -> "finished"
      [] OTHER -> "open"

Service == INSTANCE EchoService WITH
    phase <- [c \in Conns |-> PhaseOf(c)],
    out <- [c \in Conns |-> got[c] \o sndq[c]]

\* A server is an echo service: each of its steps is a step of that service
\* or leaves what clients see of it unchanged.
ImplementsEchoService == Service!Spec

\* What a client has and what is under way to it is what the service promises.
EchoPromised == Service!Promised

\* All that a client sends comes back to a client that reads, whatever other
\* clients do, unless the connection breaks.
Echoed == Service!Echoed(Responsive)

\* A server closes an unbroken connection only after the client's end of
\* stream and after all of the client's bytes were read and written back.
CleanClose ==
    \A c \in Conns : conn[c] \in {"closed", "aborted"} /\ ~rst[c] =>
        fin[c] /\ got[c] \o sndq[c] = First(sent[c])

\* A server gives the descriptor of a connection back when a client that reads
\* what it is sent has ended it, or has reset it.
NoDescriptorLeak ==
    \A c \in Responsive :
        conn[c] \in {"backlog", "open"} /\ (fin[c] \/ rst[c])
            ~> conn[c] \notin {"backlog", "open"}

=============================================================================
