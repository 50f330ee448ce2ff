-------------------------- MODULE ThreadingServer --------------------------
(***************************************************************************)
(* sem-10-network-2/threading_server.c: a detached thread for every        *)
(* connection reads and writes with blocking calls.                        *)
(*                                                                         *)
(* A thread is named by the connection run launched it for; which socket   *)
(* it works on is what it finds in its argument.                           *)
(***************************************************************************)
EXTENDS TcpSockets

CONSTANT BufSize  \* sizeof(buffer) in handle_client, 4096

ASSUME ThreadingAssumption == BufSize \in Nat \ {0}

VARIABLES pc,            \* the main thread: accept, launch, exit
          clientSocket,  \* client_socket of run
          stage,         \* of a thread: none, created, read, write, gone
          argument,      \* of a thread: the int malloc'ed for it
          socket,        \* of a thread: its local copy of the argument
          rest           \* of a thread: what write_data and rbytes span

threadVars == <<stage, argument, socket, rest>>
serverVars == <<pc, clientSocket, threadVars>>
vars == <<tcpVars, serverVars>>

TypeOK ==
    /\ TcpTypeOK
    /\ pc \in {"accept", "launch", "exit"}
    /\ clientSocket \in Conns
    /\ stage \in [Conns -> {"none", "created", "read", "write", "gone"}]
    /\ argument \in [Conns -> Conns]
    /\ socket \in [Conns -> Conns]
    /\ rest \in [Conns -> Seq(Nat)]
    /\ \A t \in Conns :
          Len(rest[t]) <= BufSize /\ (rest[t] # <<>> <=> stage[t] = "write")

Init ==
    /\ TcpInit
    /\ pc = "accept"
    /\ clientSocket \in Conns
    /\ stage = [t \in Conns |-> "none"]
    /\ argument = [t \in Conns |-> clientSocket]
    /\ socket = [t \in Conns |-> clientSocket]
    /\ rest = [t \in Conns |-> <<>>]

ClientConnect(c) == pc # "exit" /\ Connect(c) /\ UNCHANGED serverVars
ClientSend(c) == Send(c) /\ UNCHANGED serverVars
ClientFinish(c) == Finish(c) /\ UNCHANGED serverVars
ClientReset(c) == Reset(c) /\ UNCHANGED serverVars
ClientReceive(c) == Receive(c) /\ UNCHANGED serverVars

\* The process ends, and all its threads with it.
Exit ==
    /\ SockExit
    /\ pc' = "exit"
    /\ stage' = [t \in Conns |-> "gone"]
    /\ rest' = [t \in Conns |-> <<>>]
    /\ UNCHANGED <<clientSocket, argument, socket>>

-----------------------------------------------------------------------------
(* The main thread: run and launch_handler_thread                          *)

Accept(c) ==
    /\ pc = "accept"
    /\ c \in Backlog
    /\ conn' = [conn EXCEPT ![c] = "open"]
    /\ clientSocket' = c
    /\ pc' = "launch"
    /\ UNCHANGED <<sent, fin, rst, rcvq, sndq, got, threadVars>>

\* accept fails for want of descriptors, and err ends the server.
AcceptError ==
    /\ pc = "accept"
    /\ Exit

Launch ==
    /\ pc = "launch"
    /\ stage' = [stage EXCEPT ![clientSocket] = "created"]
    /\ argument' = [argument EXCEPT ![clientSocket] = clientSocket]
    /\ pc' = "accept"
    /\ UNCHANGED <<tcpVars, clientSocket, socket, rest>>

\* pthread_create fails for want of memory or of threads, which other
\* processes use too: the socket stays open and nobody will ever read it.
LaunchError ==
    /\ pc = "launch"
    /\ pc' = "accept"
    /\ UNCHANGED <<tcpVars, clientSocket, threadVars>>

-----------------------------------------------------------------------------
(* The thread t: handler_thread and handle_client                          *)

\* Faulty variant: the argument is the address of the caller's variable.
StartShared(t) ==
    /\ pc # "exit" /\ stage[t] = "created"
    /\ socket' = [socket EXCEPT ![t] = clientSocket]
    /\ stage' = [stage EXCEPT ![t] = "read"]
    /\ UNCHANGED <<tcpVars, pc, clientSocket, argument, rest>>

Start(t) ==
    /\ pc # "exit" /\ stage[t] = "created"
    /\ socket' = [socket EXCEPT ![t] = argument[t]]
    /\ stage' = [stage EXCEPT ![t] = "read"]
    /\ UNCHANGED <<tcpVars, pc, clientSocket, argument, rest>>

Read(t, n) ==
    LET s == socket[t] IN
    /\ stage[t] = "read"
    /\ n \in 1 .. BufSize /\ n <= Len(rcvq[s])
    /\ SockRead(s, n)
    /\ rest' = [rest EXCEPT ![t] = SubSeq(rcvq[s], 1, n)]
    /\ stage' = [stage EXCEPT ![t] = "write"]
    /\ UNCHANGED <<pc, clientSocket, argument, socket>>

Taken(t, n) ==
    LET s == socket[t] IN
    /\ stage[t] = "write" /\ ~rst[s]
    /\ n \in 1 .. Len(rest[t]) /\ Len(sndq[s]) + n <= SndCap
    /\ SockWrite(s, SubSeq(rest[t], 1, n))
    /\ UNCHANGED <<pc, clientSocket, argument, socket>>

\* Faulty variant: write_data does not move.
WriteAgainAll(t, n) ==
    /\ Taken(t, n)
    /\ rest' = [rest EXCEPT ![t] = IF n = Len(@) THEN <<>> ELSE @]
    /\ stage' = [stage EXCEPT ![t] = IF n = Len(rest[t]) THEN "read" ELSE @]

Write(t, n) ==
    /\ Taken(t, n)
    /\ rest' = [rest EXCEPT ![t] = SubSeq(@, n + 1, Len(@))]
    /\ stage' = [stage EXCEPT ![t] = IF n = Len(rest[t]) THEN "read" ELSE @]

\* handle_client returns: shutdown (or not), close, free, return.
Leave(t) ==
    /\ SockClose(socket[t])
    /\ stage' = [stage EXCEPT ![t] = "gone"]
    /\ rest' = [rest EXCEPT ![t] = <<>>]
    /\ UNCHANGED <<pc, clientSocket, argument, socket>>

\* Faulty variant: the thread returns without the close.
LeaveOpen(t) ==
    /\ stage[t] = "read" /\ rcvq[socket[t]] = <<>>
    /\ fin[socket[t]] \/ rst[socket[t]]
    /\ stage' = [stage EXCEPT ![t] = "gone"]
    /\ UNCHANGED <<tcpVars, pc, clientSocket, argument, socket, rest>>

\* End of stream (0), or a reset (-1).
ReadEnd(t) ==
    /\ stage[t] = "read" /\ rcvq[socket[t]] = <<>>
    /\ fin[socket[t]] \/ rst[socket[t]]
    /\ Leave(t)

\* A reset connection: ECONNRESET (-2), or SIGPIPE, which nobody ignores, if
\* the client had finished before.
WriteError(t) ==
    /\ stage[t] = "write" /\ rst[socket[t]]
    /\ IF fin[socket[t]] THEN Exit ELSE Leave(t)

-----------------------------------------------------------------------------
Client(c) ==
    ClientConnect(c) \/ ClientSend(c) \/ ClientFinish(c) \/ ClientReset(c)
        \/ ClientReceive(c)

Main == Launch \/ LaunchError \/ \E c \in Conns : Accept(c)

Thread(t) ==
    \/ Start(t) \/ ReadEnd(t) \/ WriteError(t)
    \/ \E n \in 1 .. BufSize : Read(t, n) \/ Write(t, n)

Next == Main \/ AcceptError \/ \E c \in Conns : Thread(c) \/ Client(c)

Spec == Init /\ [][Next]_vars

\* The kernel schedules each thread, and a responsive client reads the echo
\* at hand.  That accept fails is not owed to anyone.
FairSpec ==
    /\ Spec
    /\ WF_vars(Main)
    /\ \A t \in Conns : WF_vars(Thread(t))
    /\ \A c \in Responsive : WF_vars(ClientReceive(c))

-----------------------------------------------------------------------------
(* Properties                                                              *)

\* Every thread has a socket to itself that only it closes: no thread uses a
\* descriptor another one closed, and which accept may have given out again.
OwnSocket ==
    /\ TypeOK
    /\ \A t \in Conns :
          stage[t] \in {"read", "write"} => conn[socket[t]] = "open"
    /\ \A t, u \in Conns :
          stage[t] \in {"read", "write"} /\ stage[u] \in {"read", "write"}
              /\ socket[t] = socket[u] => t = u

\* A client that got a thread and keeps reading gets all it sends back,
\* however slow the clients of other threads are, and its descriptor is given
\* back when the connection has ended.
ThreadServes ==
    \A c \in Responsive :
        /\ \A k \in 1 .. MaxSent :
              stage[c] # "none" /\ sent[c] >= k
                  ~> Len(got[c]) >= k \/ rst[c] \/ conn[c] = "dead"
        /\ stage[c] # "none" /\ (fin[c] \/ rst[c]) ~> conn[c] # "open"

=============================================================================
