----------------------- MODULE BlockingServersProofs -----------------------
(***************************************************************************)
(* The servers with blocking calls are echo services, for any number of    *)
(* connections, any streams and buffers of any size; each thread of the    *)
(* threaded one has a socket to itself.                                    *)
(***************************************************************************)
EXTENDS MCBlockingServers, EchoLemmas

-----------------------------------------------------------------------------
(* The threaded server                                                     *)

\* A thread finds its own connection in its argument and in its socket, which
\* stays open while the thread has use for it.  The connection accepted last
\* has no thread until it is launched.
Owned ==
    /\ pc = "launch" =>
          conn[clientSocket] = "open" /\ stage[clientSocket] = "none"
    /\ \A t \in Conns :
          /\ stage[t] = "created" => argument[t] = t
          /\ stage[t] \in {"read", "write"} => socket[t] = t
          /\ stage[t] \in {"created", "read", "write"} => conn[t] = "open"
          /\ pc = "exit" => stage[t] = "gone"
          /\ pc # "exit" /\ conn[t] \in {"new", "backlog"} =>
                stage[t] = "none"

\* No byte is lost on its way through a thread's buffer.
Streams ==
    /\ Untouched
    /\ CleanClose
    /\ \A c \in Conns : Intact(c, rest[c])

Inv == TypeOK /\ Owned /\ Streams

\* Before a client connects, no thread and no argument exists.
LEMMA InvInit == Init => Inv
<1> SUFFICES ASSUME Init PROVE Inv
  OBVIOUS
<1>1. TcpTypeOK /\ Untouched /\ CleanClose /\ \A c \in Conns : Intact(c, <<>>)
  BY IntactInit DEF Init
<1>2. <<>> \in Seq(Nat) /\ Len(<<>>) <= BufSize
  BY ThreadingAssumption, EmptySeq
<1>3. TypeOK
  BY <1>1, <1>2 DEF Init, TypeOK
<1>4. Owned
  BY DEF Init, TcpInit, Owned
<1>5. Streams
  BY <1>1 DEF Init, Streams
<1> QED
  BY <1>3, <1>4, <1>5 DEF Inv

-----------------------------------------------------------------------------
(* The clients                                                             *)

\* A client's step changes no argument and no thread's bytes.
LEMMA StepClient ==
    ASSUME Inv, NEW c \in Conns, Client(c)
    PROVE  Inv' /\ EchoStep
<1>1. ClientStep(c) /\ UNCHANGED serverVars
  BY DEF Client, ClientConnect, ClientSend, ClientFinish, ClientReset,
         ClientReceive, ClientStep
<1>2. TcpTypeOK /\ Untouched /\ CleanClose
  BY DEF Inv, TypeOK, Streams
<1>3. TypeOK'
  <2>1. TcpTypeOK'
    BY <1>1, <1>2, ClientTyped
  <2> QED
    BY <1>1, <2>1 DEF Inv, TypeOK, serverVars, threadVars
<1>4. Owned'
  <2>1. \A d \in Conns : /\ conn[d] = "open" => conn'[d] = "open"
                         /\ conn'[d] \in {"new", "backlog"} =>
                              conn[d] \in {"new", "backlog"}
    BY <1>1, <1>2
       DEF ClientStep, Connect, Send, Finish, Reset, Receive, TcpTypeOK
  <2> QED
    BY <1>1, <2>1 DEF Inv, TypeOK, Owned, serverVars, threadVars
<1>5. Streams'
  <2>1. ASSUME NEW d \in Conns PROVE Intact(d, rest[d])'
    <3>1. PICK h \in Seq(Nat) : h = rest[d] /\ h = rest'[d]
      BY <1>1 DEF Inv, TypeOK, serverVars, threadVars
    <3>2. Intact(d, h)
      BY <3>1 DEF Inv, Streams
    <3>3. Intact(d, h)'
      BY <1>1, <1>2, <3>2, ClientIntact
    <3> QED
      BY <3>1, <3>3
  <2> QED
    BY <1>1, <1>2, <2>1, ClientUntouched, ClientClean DEF Streams
<1> QED
  BY <1>1, <1>2, <1>3, <1>4, <1>5, ClientEchoes DEF Inv

-----------------------------------------------------------------------------
(* The main thread                                                         *)

\* main stores the accepted socket for a thread that is not yet there.
LEMMA StepAccept ==
    ASSUME Inv, NEW c \in Conns, Accept(c)
    PROVE  Inv' /\ EchoStep
<1>1. /\ pc = "accept" /\ pc' = "launch" /\ conn[c] = "backlog"
      /\ clientSocket' = c
      /\ conn' = [conn EXCEPT ![c] = "open"]
      /\ UNCHANGED <<sent, fin, rst, rcvq, sndq, got, threadVars>>
  BY DEF Accept, Backlog
<1>2. TcpTypeOK
  BY DEF Inv, TypeOK
<1>3. /\ TcpTypeOK' /\ Untouched' /\ CleanClose'
      /\ \A d \in Conns : \A h : Intact(d, h) => Intact(d, h)'
  BY <1>1, <1>2, AcceptKeeps DEF Inv, Streams
<1>4. TypeOK'
  BY <1>1, <1>3 DEF Inv, TypeOK, threadVars
<1>5. Owned'
  BY <1>1, <1>2 DEF Inv, Owned, TcpTypeOK, threadVars
<1>6. Streams'
  <2>1. ASSUME NEW d \in Conns PROVE Intact(d, rest[d])'
    <3>1. PICK h : h = rest[d] /\ h = rest'[d]
      BY <1>1 DEF threadVars
    <3>2. Intact(d, h)'
      BY <1>3, <3>1 DEF Inv, Streams
    <3> QED
      BY <3>1, <3>2
  <2> QED
    BY <1>3, <2>1 DEF Streams
<1> QED
  BY <1>1, <1>2, <1>4, <1>5, <1>6, QuietAccept DEF Inv

\* The thread that main creates gets the argument stored for its client.
LEMMA StepLaunch ==
    ASSUME Inv, Launch \/ LaunchError
    PROVE  Inv' /\ EchoStep
<1>1. /\ pc = "launch" /\ pc' = "accept"
      /\ UNCHANGED <<tcpVars, clientSocket, socket, rest>>
  BY DEF Launch, LaunchError, threadVars
<1>2. \/ UNCHANGED <<stage, argument>>
      \/ /\ stage' = [stage EXCEPT ![clientSocket] = "created"]
         /\ argument' = [argument EXCEPT ![clientSocket] = clientSocket]
  BY DEF Launch, LaunchError, threadVars
<1>3. clientSocket \in Conns /\ stage[clientSocket] = "none"
      /\ conn[clientSocket] = "open"
  BY <1>1 DEF Inv, TypeOK, Owned
<1>4. TypeOK'
  <2>1. TcpTypeOK'
    BY <1>1 DEF Inv, TypeOK, TcpTypeOK, tcpVars
  <2>2. \A t \in Conns : stage'[t] = "write" <=> stage[t] = "write"
    BY <1>2, <1>3 DEF Inv, TypeOK
  <2>3. /\ stage' \in
              [Conns -> {"none", "created", "read", "write", "gone"}]
        /\ argument' \in [Conns -> Conns]
    <3>1. /\ stage \in
                [Conns -> {"none", "created", "read", "write", "gone"}]
          /\ argument \in [Conns -> Conns]
      BY DEF Inv, TypeOK
    <3>2. CASE UNCHANGED <<stage, argument>>
      BY <3>1, <3>2
    <3>3. CASE stage' = [stage EXCEPT ![clientSocket] = "created"]
               /\ argument' = [argument EXCEPT ![clientSocket] = clientSocket]
      BY <1>3, <3>1, <3>3
    <3> QED
      BY <1>2, <3>2, <3>3
  <2> QED
    BY <1>1, <2>1, <2>2, <2>3 DEF Inv, TypeOK
<1>5. Owned'
  BY <1>1, <1>2, <1>3 DEF Inv, TypeOK, Owned, tcpVars
<1>6. Streams'
  BY <1>1 DEF Inv, Streams, Untouched, CleanClose, Intact, First, tcpVars
<1> QED
  BY <1>1, <1>4, <1>5, <1>6, QuietRead DEF Inv, tcpVars

-----------------------------------------------------------------------------
(* The threads                                                             *)

\* The end of the process, which any thread may bring about.
LEMMA StepExit ==
    ASSUME Inv, Exit
    PROVE  Inv' /\ EchoStep
<1>1. /\ SockExit /\ pc' = "exit"
      /\ stage' = [t \in Conns |-> "gone"]
      /\ rest' = [t \in Conns |-> <<>>]
      /\ UNCHANGED <<clientSocket, argument, socket>>
  BY DEF Exit
<1>2. TcpTypeOK
  BY DEF Inv, TypeOK
<1>3. /\ TcpTypeOK' /\ Untouched' /\ CleanClose' /\ EchoStep
      /\ \A d \in Conns : \A h : Intact(d, h) => Intact(d, h)'
  BY <1>1, <1>2, ExitKeeps DEF Inv, Streams
<1>4. TypeOK'
  <2>1. <<>> \in Seq(Nat) /\ Len(<<>>) <= BufSize
    BY ThreadingAssumption, EmptySeq
  <2> QED
    BY <1>1, <1>3, <2>1 DEF Inv, TypeOK
<1>5. Owned'
  BY <1>1 DEF Owned
<1>6. Streams'
  <2>1. ASSUME NEW d \in Conns PROVE Intact(d, rest[d])'
    <3>1. rest'[d] = <<>>
      BY <1>1
    <3>2. CASE conn[d] \in {"backlog", "open"}
      BY <1>1, <3>2 DEF SockExit, Intact
    <3>3. CASE conn[d] \notin {"backlog", "open"}
      <4>1. rest[d] = <<>>
        BY <3>3 DEF Inv, TypeOK, Owned
      <4>2. Intact(d, <<>>)'
        BY <1>3, <4>1 DEF Inv, Streams
      <4> QED
        BY <3>1, <4>2
    <3> QED
      BY <3>2, <3>3
  <2> QED
    BY <1>3, <2>1 DEF Streams
<1> QED
  BY <1>3, <1>4, <1>5, <1>6 DEF Inv

\* The thread copies its argument and frees it; no other thread reads it.
LEMMA StepStart ==
    ASSUME Inv, NEW t \in Conns, Start(t)
    PROVE  Inv' /\ EchoStep
<1>1. /\ pc # "exit" /\ stage[t] = "created"
      /\ socket' = [socket EXCEPT ![t] = argument[t]]
      /\ stage' = [stage EXCEPT ![t] = "read"]
      /\ UNCHANGED <<tcpVars, pc, clientSocket, argument, rest>>
  BY DEF Start
<1>2. argument[t] = t /\ conn[t] = "open" /\ rest[t] = <<>>
  BY <1>1 DEF Inv, TypeOK, Owned
<1>3. TypeOK'
  BY <1>1, <1>2 DEF Inv, TypeOK, TcpTypeOK, tcpVars
<1>4. Owned'
  BY <1>1, <1>2 DEF Inv, TypeOK, Owned, tcpVars
<1>5. Streams'
  BY <1>1 DEF Inv, Streams, Untouched, CleanClose, Intact, First, tcpVars
<1> QED
  BY <1>1, <1>3, <1>4, <1>5, QuietRead DEF Inv, tcpVars

\* A thread takes the next bytes of its own client's stream.
LEMMA StepRead ==
    ASSUME Inv, NEW t \in Conns, NEW n \in 1 .. BufSize, Read(t, n)
    PROVE  Inv' /\ EchoStep
<1>1. /\ stage[t] = "read" /\ n <= Len(rcvq[t]) /\ SockRead(t, n)
      /\ rest' = [rest EXCEPT ![t] = SubSeq(rcvq[t], 1, n)]
      /\ stage' = [stage EXCEPT ![t] = "write"]
      /\ UNCHANGED <<pc, clientSocket, argument, socket>>
  BY DEF Read, Inv, Owned
<1>2. /\ TcpTypeOK /\ socket[t] = t /\ conn[t] = "open" /\ rest[t] = <<>>
      /\ Intact(t, <<>>) /\ pc # "exit"
  BY <1>1 DEF Inv, TypeOK, Owned, Streams
<1>3. n \in 1 .. Len(rcvq[t])
  BY <1>1, <1>2, ConnType, ThreadingAssumption
<1>4. PICK a \in Seq(Nat) : a = SubSeq(rcvq[t], 1, n) /\ Len(a) = n
  BY <1>1, <1>2, <1>3, ReadKeeps
<1>5. /\ TcpTypeOK' /\ Untouched' /\ CleanClose'
      /\ \A d \in Conns \ {t} : \A h : Intact(d, h) => Intact(d, h)'
      /\ Intact(t, a)'
  BY <1>1, <1>2, <1>3, <1>4, ReadKeeps DEF Inv, Streams
<1>6. /\ rest'[t] = a
      /\ \A d \in Conns \ {t} : rest'[d] = rest[d] /\ stage'[d] = stage[d]
      /\ stage'[t] = "write"
      /\ rest' = [rest EXCEPT ![t] = a]
  BY <1>1, <1>4 DEF Inv, TypeOK
<1>7. TypeOK'
  <2>1. Len(a) <= BufSize /\ a # <<>>
    <3>1. Len(a) # 0 /\ Len(a) <= BufSize
      BY <1>4, ThreadingAssumption
    <3> QED
      BY <3>1, EmptySeq
  <2>2. \A d \in Conns : /\ Len(rest'[d]) <= BufSize
                         /\ rest'[d] # <<>> <=> stage'[d] = "write"
    BY <1>6, <2>1 DEF Inv, TypeOK
  <2> QED
    BY <1>1, <1>5, <1>6, <2>2 DEF Inv, TypeOK
<1>8. Owned'
  <2>1. conn' = conn
    BY <1>1 DEF SockRead
  <2> QED
    BY <1>1, <1>2, <1>6, <2>1 DEF Inv, TypeOK, Owned
<1>9. Streams'
  <2>1. ASSUME NEW d \in Conns \ {t} PROVE Intact(d, rest[d])'
    <3>1. PICK h : h = rest[d] /\ h = rest'[d]
      BY <1>6
    <3>2. Intact(d, h)'
      BY <1>5, <3>1 DEF Inv, Streams
    <3> QED
      BY <3>1, <3>2
  <2>2. Intact(t, rest[t])'
    BY <1>5, <1>6
  <2> QED
    BY <1>5, <2>1, <2>2 DEF Streams
<1>10. EchoStep
  BY <1>1, QuietRead DEF SockRead
<1> QED
  BY <1>7, <1>8, <1>9, <1>10 DEF Inv

\* A thread puts out the next bytes of its client, a portion at a time.
LEMMA StepWrite ==
    ASSUME Inv, NEW t \in Conns, NEW n \in 1 .. BufSize, Write(t, n)
    PROVE  Inv' /\ EchoStep
<1>1. /\ stage[t] = "write" /\ ~rst[t]
      /\ n \in 1 .. Len(rest[t]) /\ Len(sndq[t]) + n <= SndCap
      /\ SockWrite(t, SubSeq(rest[t], 1, n))
      /\ rest' = [rest EXCEPT ![t] = SubSeq(rest[t], n + 1, Len(rest[t]))]
      /\ stage' = [stage EXCEPT ![t] =
                     IF n = Len(rest[t]) THEN "read" ELSE "write"]
      /\ UNCHANGED <<pc, clientSocket, argument, socket>>
  BY DEF Write, Taken, Inv, TypeOK, Owned
<1>2. /\ TcpTypeOK /\ socket[t] = t /\ conn[t] = "open" /\ pc # "exit"
      /\ rest[t] \in Seq(Nat) /\ Len(rest[t]) <= BufSize
      /\ Intact(t, rest[t])
  BY <1>1 DEF Inv, TypeOK, Owned, Streams
<1>3. PICK a \in Seq(Nat), b \in Seq(Nat) :
        /\ a = SubSeq(rest[t], 1, n)
        /\ b = SubSeq(rest[t], n + 1, Len(rest[t]))
        /\ a \o b = rest[t]
  BY <1>1, <1>2, CutQueue
<1>4. Len(a) = n /\ Len(b) = Len(rest[t]) - n
  <2>1. n \in Nat /\ Len(rest[t]) \in Nat /\ n <= Len(rest[t])
    BY <1>1, <1>2, LenProperties
  <2>2. \A i \in n + 1 .. Len(rest[t]) : rest[t][i] \in Nat
    <3>1. \A i \in n + 1 .. Len(rest[t]) : i \in 1 .. Len(rest[t])
      BY <2>1
    <3> QED
      BY <1>2, <3>1, ElementOfSeq
  <2>3. Len(b) = Len(rest[t]) - n
    BY <1>3, <2>1, <2>2, Slice
  <2>4. Len(rest[t]) = Len(a) + Len(b) /\ Len(a) \in Nat
    BY <1>3, ConcatLen, LenProperties
  <2> QED
    BY <2>1, <2>3, <2>4
<1>5. a # <<>> /\ (b = <<>> <=> n = Len(rest[t])) /\ Len(b) <= BufSize
  BY <1>1, <1>2, <1>4, EmptySeq, LenProperties, ThreadingAssumption
<1>6. /\ TcpTypeOK' /\ Untouched' /\ CleanClose' /\ EchoStep
      /\ \A d \in Conns \ {t} : \A h : Intact(d, h) => Intact(d, h)'
      /\ Intact(t, b)'
  <2>1. SockWrite(t, a) /\ Intact(t, a \o b)
        /\ Len(sndq[t]) + Len(a) <= SndCap
    BY <1>1, <1>2, <1>3, <1>4, Zenon
  <2> QED
    BY <1>1, <1>2, <1>5, <2>1, WriteKeeps DEF Inv, Streams
<1>7. /\ rest'[t] = b /\ rest' = [rest EXCEPT ![t] = b]
      /\ stage'[t] = IF b = <<>> THEN "read" ELSE "write"
      /\ \A d \in Conns \ {t} : rest'[d] = rest[d] /\ stage'[d] = stage[d]
  BY <1>1, <1>3, <1>5, Zenon DEF Inv, TypeOK
<1>8. TypeOK'
  <2>1. \A d \in Conns : /\ Len(rest'[d]) <= BufSize
                         /\ rest'[d] # <<>> <=> stage'[d] = "write"
    BY <1>5, <1>7 DEF Inv, TypeOK
  <2> QED
    BY <1>1, <1>6, <1>7, <2>1 DEF Inv, TypeOK
<1>9. Owned'
  <2>1. conn' = conn
    BY <1>1 DEF SockWrite
  <2> QED
    BY <1>1, <1>2, <1>7, <2>1 DEF Inv, TypeOK, Owned
<1>10. Streams'
  <2>1. ASSUME NEW d \in Conns \ {t} PROVE Intact(d, rest[d])'
    <3>1. PICK h : h = rest[d] /\ h = rest'[d]
      BY <1>7
    <3>2. Intact(d, h)'
      BY <1>6, <3>1 DEF Inv, Streams
    <3> QED
      BY <3>1, <3>2
  <2>2. Intact(t, rest[t])'
    BY <1>6, <1>7
  <2> QED
    BY <1>6, <2>1, <2>2 DEF Streams
<1> QED
  BY <1>6, <1>8, <1>9, <1>10 DEF Inv

\* handle_client returns after a reset, or at the end of the stream.
LEMMA StepLeave ==
    ASSUME Inv, NEW t \in Conns, stage[t] \in {"read", "write"}, Leave(t),
           rst[t] \/ (stage[t] = "read" /\ rcvq[t] = <<>> /\ fin[t])
    PROVE  Inv' /\ EchoStep
<1>1. /\ TcpTypeOK /\ socket[t] = t /\ conn[t] = "open" /\ pc # "exit"
      /\ CleanClose /\ Untouched
  BY DEF Inv, TypeOK, Owned, Streams
<1>2. /\ SockClose(t)
      /\ stage' = [stage EXCEPT ![t] = "gone"]
      /\ rest' = [rest EXCEPT ![t] = <<>>]
      /\ UNCHANGED <<pc, clientSocket, argument, socket>>
  BY <1>1 DEF Leave
<1>3. stage[t] = "read" => Intact(t, <<>>)
  BY DEF Inv, TypeOK, Streams
<1>4. /\ TcpTypeOK' /\ Untouched' /\ CleanClose' /\ EchoStep
      /\ \A d \in Conns \ {t} : \A h : Intact(d, h) => Intact(d, h)'
      /\ Intact(t, <<>>)'
  <2>1. rst[t] \/ (fin[t] /\ rcvq[t] = <<>> /\ Intact(t, <<>>))
    BY <1>3
  <2> QED
    BY <1>1, <1>2, <2>1, CloseKeeps
<1>5. /\ rest'[t] = <<>> /\ stage'[t] = "gone"
      /\ \A d \in Conns \ {t} : rest'[d] = rest[d] /\ stage'[d] = stage[d]
  BY <1>2 DEF Inv, TypeOK
<1>6. TypeOK'
  <2>1. <<>> \in Seq(Nat) /\ Len(<<>>) <= BufSize
    BY ThreadingAssumption, EmptySeq
  <2>2. \A d \in Conns : /\ Len(rest'[d]) <= BufSize
                         /\ rest'[d] # <<>> <=> stage'[d] = "write"
    BY <1>5, <2>1 DEF Inv, TypeOK
  <2> QED
    BY <1>2, <1>4, <1>5, <2>1, <2>2 DEF Inv, TypeOK
<1>7. Owned'
  <2>1. /\ conn'[t] \notin {"new", "backlog"}
        /\ \A d \in Conns \ {t} : conn'[d] = conn[d]
    BY <1>1, <1>2 DEF SockClose, TcpTypeOK
  <2>2. pc = "launch" => clientSocket \in Conns \ {t}
    BY DEF Inv, TypeOK, Owned
  <2>3. pc' = "launch" => /\ conn'[clientSocket'] = "open"
                          /\ stage'[clientSocket'] = "none"
    BY <1>2, <1>5, <2>1, <2>2 DEF Inv, Owned
  <2> QED
    BY <1>1, <1>2, <1>5, <2>1, <2>3 DEF Inv, Owned
<1>8. Streams'
  <2>1. ASSUME NEW d \in Conns \ {t} PROVE Intact(d, rest[d])'
    <3>1. PICK h : h = rest[d] /\ h = rest'[d]
      BY <1>5
    <3>2. Intact(d, h)'
      BY <1>4, <3>1 DEF Inv, Streams
    <3> QED
      BY <3>1, <3>2
  <2>2. Intact(t, rest[t])'
    BY <1>4, <1>5
  <2> QED
    BY <1>4, <2>1, <2>2 DEF Streams
<1> QED
  BY <1>4, <1>6, <1>7, <1>8 DEF Inv

\* Every step of a thread.
LEMMA StepThread ==
    ASSUME Inv, NEW t \in Conns, Thread(t)
    PROVE  Inv' /\ EchoStep
<1>1. stage[t] \in {"read", "write"} => socket[t] = t
  BY DEF Inv, Owned
<1>2. CASE ReadEnd(t)
  BY <1>1, <1>2, StepLeave DEF ReadEnd
<1>3. CASE WriteError(t)
  BY <1>1, <1>3, StepLeave, StepExit DEF WriteError
<1> QED
  BY <1>2, <1>3, StepStart, StepRead, StepWrite DEF Thread

-----------------------------------------------------------------------------
(* The server                                                              *)

\* Every step of threading_server.c and its clients.
LEMMA InvStep ==
    ASSUME Inv, [Next]_vars
    PROVE  Inv' /\ EchoStep
<1>1. CASE Main
  BY <1>1, StepAccept, StepLaunch DEF Main
<1>2. CASE AcceptError
  BY <1>2, StepExit DEF AcceptError
<1>3. CASE UNCHANGED vars
  <2> USE DEF vars, tcpVars, serverVars, threadVars
  <2>1. TypeOK' /\ Owned'
    BY <1>3 DEF Inv, TypeOK, TcpTypeOK, Owned
  <2>2. Streams'
    BY <1>3 DEF Inv, Streams, Untouched, CleanClose, Intact, First
  <2> QED
    BY <1>3, <2>1, <2>2, QuietRead DEF Inv
<1> QED
  BY <1>1, <1>2, <1>3, StepThread, StepClient DEF Next

\* Threads never share a socket, nor use one that was closed: the argument of
\* launch_handler_thread is the thread's own, and only the thread closes it.
THEOREM SocketsOwned == Spec => []OwnSocket
<1>1. Inv => OwnSocket
  BY DEF Inv, Owned, OwnSocket
<1>2. Inv /\ [Next]_vars => Inv'
  BY InvStep
<1> QED
  BY <1>1, <1>2, InvInit, PTL DEF Spec

\* Through the partial reads and writes of every thread, failed launches,
\* resets and the end of the process, clients see the abstract echo service.
THEOREM Implements == Spec => ImplementsEchoService
<1>1. Init => Service!Init
  BY EchoInit DEF Init
<1>2. Inv /\ [Next]_vars => Inv' /\ [Service!Next]_(Service!vars)
  BY InvStep DEF EchoStep
<1> QED
  BY <1>1, <1>2, InvInit, PTL
     DEF Spec, ImplementsEchoService, Service!Spec

-----------------------------------------------------------------------------
(* The servers with one thread, which hold what they have read of one      *)
(* client while they write it back                                         *)

\* The bytes of a client that are in the buffer.
InHand(c) == IF c = cur THEN unsent ELSE <<>>

HandType ==
    /\ TcpTypeOK /\ cur \in Conns
    /\ unsent \in Seq(Nat) /\ Len(unsent) <= BufSize

\* No byte is lost on its way through the buffer.
Hand ==
    /\ HandType /\ Untouched /\ CleanClose
    /\ \A c \in Conns : Intact(c, InHand(c))

\* What epoll_wait reported is of open connections, and a reset is for good.
EventType(e) ==
    /\ DOMAIN e \subseteq Conns \cup {Listener}
    /\ \A i \in DOMAIN e : e[i] \subseteq {"in", "hup"}

EventsHold(e) ==
    \A c \in Conns : c \in DOMAIN e =>
        conn[c] = "open" /\ ("hup" \in e[c] => rst[c])

SimpleInv ==
    /\ Hand /\ EventType(events)
    /\ at \in {"loop", "write", "exit"} /\ aborted \in BOOLEAN
    /\ unsent # <<>> <=> at = "write"
    /\ at = "write" => conn[cur] = "open"
    /\ at # "exit" => EventsHold(events)

TurnInv ==
    /\ Hand
    /\ at \in {"accept", "read", "write", "part", "exit"}
    /\ aborted \in BOOLEAN
    /\ unsent # <<>> <=> at \in {"write", "part"}
    /\ at \in {"read", "write", "part"} => conn[cur] = "open"

BlockingInv ==
    /\ program \in {"threading_server", "epoll_server", "tcp_server"}
    /\ program = "threading_server" => Inv
    /\ program = "epoll_server" => SimpleInv
    /\ program = "tcp_server" => TurnInv

\* The buffer changes hands for no client but the one it is of.
LEMMA HandKept ==
    ASSUME Hand, HandType', Untouched', CleanClose',
           NEW c \in Conns, Intact(c, InHand(c))',
           \A d \in Conns \ {c} :
              /\ InHand(d)' = InHand(d)
              /\ \A h : Intact(d, h) => Intact(d, h)'
    PROVE  Hand'
<1>1. ASSUME NEW d \in Conns \ {c} PROVE Intact(d, InHand(d))'
  <2>1. PICK h : h = InHand(d) /\ h = InHand(d)'
    BY <1>1
  <2>2. Intact(d, h)'
    BY <1>1, <2>1 DEF Hand
  <2> QED
    BY <2>1, <2>2
<1> QED
  BY <1>1 DEF Hand

\* At the beginning no server of one thread has bytes in hand.
LEMMA HandInit ==
    ASSUME TcpInit, cur \in Conns, unsent = <<>>
    PROVE  Hand
<1>1. TcpTypeOK /\ Untouched /\ CleanClose /\ \A c \in Conns : Intact(c, <<>>)
  BY IntactInit
<1>2. <<>> \in Seq(Nat) /\ Len(<<>>) <= BufSize
  BY ThreadingAssumption, EmptySeq
<1>3. \A c \in Conns : InHand(c) = <<>>
  BY DEF InHand
<1> QED
  BY <1>1, <1>2, <1>3 DEF Hand, HandType

\* A step that leaves the connections and the buffer alone.
LEMMA HandSame ==
    ASSUME Hand, UNCHANGED <<tcpVars, cur, unsent>>
    PROVE  Hand' /\ EchoStep
<1>1. Hand'
  BY DEF Hand, HandType, TcpTypeOK, Untouched, CleanClose, Intact, InHand,
         First, tcpVars
<1> QED
  BY <1>1, QuietRead DEF tcpVars

\* A client's step leaves the bytes in hand to be the next of its stream.
LEMMA HandClient ==
    ASSUME Hand, NEW c \in Conns, ClientStep(c), UNCHANGED <<cur, unsent>>
    PROVE  Hand' /\ EchoStep
<1>1. TcpTypeOK /\ Untouched /\ CleanClose
  BY DEF Hand, HandType
<1>2. HandType' /\ Untouched' /\ CleanClose'
  <2>1. TcpTypeOK'
    BY <1>1, ClientTyped
  <2>2. Untouched' /\ CleanClose'
    BY <1>1, ClientUntouched, ClientClean
  <2> QED
    BY <2>1, <2>2 DEF Hand, HandType
<1>3. ASSUME NEW d \in Conns PROVE Intact(d, InHand(d))'
  <2>1. PICK h : h = InHand(d) /\ h = InHand(d)'
    BY DEF InHand
  <2>2. h \in Seq(Nat)
    BY <2>1, EmptySeq DEF Hand, HandType, InHand
  <2>3. Intact(d, h)
    BY <1>3, <2>1 DEF Hand
  <2>4. Intact(d, h)'
    BY <1>1, <1>3, <2>2, <2>3, ClientIntact
  <2> QED
    BY <2>1, <2>4
<1> QED
  BY <1>1, <1>2, <1>3, ClientEchoes DEF Hand

\* accept, with nothing in the buffer.
LEMMA HandAccept ==
    ASSUME Hand, NEW c \in Conns, conn[c] = "backlog",
           conn' = [conn EXCEPT ![c] = "open"],
           UNCHANGED <<sent, fin, rst, rcvq, sndq, got>>,
           unsent = <<>>, unsent' = <<>>, cur' \in Conns
    PROVE  Hand' /\ EchoStep
<1>1. /\ TcpTypeOK' /\ Untouched' /\ CleanClose'
      /\ \A d \in Conns : \A h : Intact(d, h) => Intact(d, h)'
  BY AcceptKeeps DEF Hand, HandType
<1>2. \A d \in Conns : InHand(d)' = InHand(d)
  BY DEF InHand
<1>3. HandType'
  BY <1>1 DEF Hand, HandType
<1>4. Intact(c, InHand(c))'
  <2>1. PICK h : h = InHand(c) /\ h = InHand(c)'
    BY <1>2
  <2>2. Intact(c, h)'
    BY <1>1, <2>1 DEF Hand
  <2> QED
    BY <2>1, <2>2
<1>5. Hand'
  BY <1>1, <1>2, <1>3, <1>4, HandKept
<1>6. EchoStep
  BY QuietAccept DEF Hand, HandType
<1> QED
  BY <1>5, <1>6

\* A read fills the empty buffer.
LEMMA HandRead ==
    ASSUME Hand, NEW c \in Conns, NEW n \in 1 .. BufSize, n <= Len(rcvq[c]),
           SockRead(c, n), unsent = <<>>,
           cur' = c, unsent' = SubSeq(rcvq[c], 1, n)
    PROVE  Hand' /\ EchoStep /\ unsent' # <<>> /\ conn' = conn /\ rst' = rst
<1>1. TcpTypeOK /\ Untouched /\ CleanClose
  BY DEF Hand, HandType
<1>2. \A d \in Conns : InHand(d) = <<>>
  BY DEF InHand
<1>3. Intact(c, <<>>)
  BY <1>2 DEF Hand
<1>4. n \in 1 .. Len(rcvq[c])
  BY <1>1, ConnType, ThreadingAssumption
<1>5. PICK a \in Seq(Nat) : a = SubSeq(rcvq[c], 1, n) /\ Len(a) = n
  BY <1>1, <1>4, ReadKeeps
<1>6. /\ TcpTypeOK' /\ Untouched' /\ CleanClose'
      /\ \A d \in Conns \ {c} : \A h : Intact(d, h) => Intact(d, h)'
      /\ Intact(c, a)'
  BY <1>1, <1>3, <1>4, <1>5, ReadKeeps
<1>7. /\ InHand(c)' = a /\ unsent' = a
      /\ \A d \in Conns \ {c} : InHand(d)' = InHand(d)
  BY <1>2, <1>5 DEF InHand
<1>8. HandType' /\ a # <<>>
  <2>1. Len(a) <= BufSize /\ Len(a) # 0
    BY <1>5, ThreadingAssumption
  <2>2. a # <<>>
    BY <2>1, EmptySeq
  <2> QED
    BY <1>6, <1>7, <2>1, <2>2 DEF HandType
<1>9. Intact(c, InHand(c))'
  BY <1>6, <1>7
<1>10. Hand'
  BY <1>6, <1>7, <1>8, <1>9, HandKept
<1>11. UNCHANGED <<conn, sent, fin, rst, sndq, got>>
  BY DEF SockRead
<1> QED
  BY <1>7, <1>8, <1>10, <1>11, QuietRead

\* A write takes the first n bytes of the buffer.
LEMMA HandWrite ==
    ASSUME Hand, conn[cur] = "open", ~rst[cur],
           NEW n \in 1 .. Len(unsent), Len(sndq[cur]) + n <= SndCap,
           SockWrite(cur, SubSeq(unsent, 1, n)), cur' = cur,
           unsent' = SubSeq(unsent, n + 1, Len(unsent))
    PROVE  /\ Hand' /\ EchoStep
           /\ unsent' = <<>> <=> n = Len(unsent)
           /\ conn' = conn /\ rst' = rst
<1>1. /\ TcpTypeOK /\ Untouched /\ CleanClose
      /\ unsent \in Seq(Nat) /\ Len(unsent) \in Nat
      /\ Len(unsent) <= BufSize
      /\ Intact(cur, unsent)
  <2>1. cur \in Conns /\ InHand(cur) = unsent
    BY DEF Hand, HandType, InHand
  <2> QED
    BY <2>1, LenProperties DEF Hand, HandType
<1>2. PICK c \in Conns : c = cur
  BY DEF Hand, HandType
<1>3. PICK a \in Seq(Nat), b \in Seq(Nat) :
        /\ a = SubSeq(unsent, 1, n)
        /\ b = SubSeq(unsent, n + 1, Len(unsent))
        /\ a \o b = unsent
  BY <1>1, CutQueue, ZenonT(60)
<1>4. Len(a) = n /\ Len(b) = Len(unsent) - n /\ n # 0
  <2>1. \A i \in 0 + 1 .. n : unsent[i] \in Nat
    BY <1>1, ElementOfSeq, Within
  <2>2. n \in Nat /\ 0 <= n /\ 0 \in Nat /\ n # 0
    BY <1>1
  <2>3. Len(SubSeq(unsent, 0 + 1, n)) = n - 0
    BY <2>1, <2>2, Slice
  <2>4. Len(a) = n
    BY <1>3, <2>2, <2>3
  <2>5. Len(unsent) = Len(a) + Len(b) /\ Len(b) \in Nat
    BY <1>3, ConcatLen, LenProperties
  <2> QED
    BY <2>2, <2>4, <2>5
<1>5. a # <<>> /\ Len(sndq[c]) + Len(a) <= SndCap /\ SockWrite(c, a)
  <2>1. Len(a) # 0
    BY <1>4
  <2> QED
    BY <1>2, <1>3, <1>4, <2>1, EmptySeq
<1>6. /\ TcpTypeOK' /\ Untouched' /\ CleanClose' /\ EchoStep
      /\ \A d \in Conns \ {c} : \A h : Intact(d, h) => Intact(d, h)'
      /\ Intact(c, b)'
  <2>1. Intact(c, a \o b) /\ conn[c] = "open" /\ ~rst[c]
    BY <1>1, <1>2, <1>3
  <2> QED
    BY <1>1, <1>5, <2>1, WriteKeeps
<1>7. /\ InHand(c)' = b /\ unsent' = b
      /\ \A d \in Conns \ {c} : InHand(d)' = InHand(d)
  BY <1>2, <1>3 DEF InHand
<1>8. HandType'
  <2>1. Len(b) <= BufSize
    BY <1>1, <1>4, ThreadingAssumption
  <2> QED
    BY <1>2, <1>6, <1>7, <2>1 DEF HandType
<1>9. Intact(c, InHand(c))'
  BY <1>6, <1>7
<1>10. Hand'
  BY <1>6, <1>7, <1>8, <1>9, HandKept
<1>11. b = <<>> <=> n = Len(unsent)
  <2>1. b = <<>> <=> Len(b) = 0
    BY <1>3, EmptySeq
  <2> QED
    BY <1>1, <1>4, <2>1, SMTT(40)
<1>12. conn' = conn /\ rst' = rst
  BY DEF SockWrite
<1> QED
  BY <1>6, <1>7, <1>10, <1>11, <1>12

\* The connection closed is the one of the buffer, if there is anything in it.
LEMMA HandClose ==
    ASSUME Hand, NEW c \in Conns, conn[c] = "open", SockClose(c),
           rst[c] \/ (fin[c] /\ rcvq[c] = <<>> /\ unsent = <<>>),
           unsent = <<>> \/ c = cur,
           cur' = cur, unsent' = <<>>
    PROVE  /\ Hand' /\ EchoStep
           /\ rst' = rst /\ \A d \in Conns \ {c} : conn'[d] = conn[d]
<1>1. TcpTypeOK /\ Untouched /\ CleanClose
  BY DEF Hand, HandType
<1>2. unsent = <<>> => Intact(c, <<>>)
  BY DEF Hand, InHand
<1>3. /\ TcpTypeOK' /\ Untouched' /\ CleanClose' /\ EchoStep
      /\ \A d \in Conns \ {c} : \A h : Intact(d, h) => Intact(d, h)'
      /\ Intact(c, <<>>)'
  BY <1>1, <1>2, CloseKeeps
<1>4. /\ InHand(c)' = <<>>
      /\ \A d \in Conns \ {c} : InHand(d)' = InHand(d)
  BY DEF InHand
<1>5. HandType'
  <2>1. <<>> \in Seq(Nat) /\ Len(<<>>) <= BufSize
    BY ThreadingAssumption, EmptySeq
  <2> QED
    BY <1>3, <2>1 DEF Hand, HandType
<1>6. Intact(c, InHand(c))'
  BY <1>3, <1>4
<1>7. Hand'
  BY <1>3, <1>4, <1>5, <1>6, HandKept
<1>8. rst' = rst /\ \A d \in Conns \ {c} : conn'[d] = conn[d]
  BY <1>1 DEF SockClose, TcpTypeOK
<1> QED
  BY <1>3, <1>7, <1>8

\* The process ends: what it held is lost with its connections.
LEMMA HandExit ==
    ASSUME Hand, SockExit, unsent = <<>> \/ conn[cur] = "open",
           cur' = cur, unsent' = <<>>
    PROVE  Hand' /\ EchoStep
<1>1. PICK c \in Conns : c = cur
  BY DEF Hand, HandType
<1>2. /\ TcpTypeOK' /\ Untouched' /\ CleanClose' /\ EchoStep
      /\ \A d \in Conns : \A h : Intact(d, h) => Intact(d, h)'
  BY ExitKeeps DEF Hand, HandType
<1>3. HandType'
  <2>1. <<>> \in Seq(Nat) /\ Len(<<>>) <= BufSize
    BY ThreadingAssumption, EmptySeq
  <2> QED
    BY <1>2, <2>1 DEF Hand, HandType
<1>4. /\ InHand(c)' = <<>>
      /\ \A d \in Conns \ {c} : InHand(d)' = InHand(d)
  BY <1>1 DEF InHand
<1>5. Intact(c, <<>>)'
  <2>1. CASE unsent = <<>>
    <3>1. Intact(c, <<>>)
      BY <2>1 DEF Hand, InHand
    <3> QED
      BY <1>2, <3>1
  <2>2. CASE conn[cur] = "open"
    <3>1. conn'[c] = "dead"
      BY <1>1, <2>2 DEF SockExit
    <3> QED
      BY <3>1 DEF Intact
  <2> QED
    BY <2>1, <2>2
<1>6. Intact(c, InHand(c))'
  BY <1>4, <1>5
<1> QED
  BY <1>2, <1>3, <1>4, <1>6, HandKept

-----------------------------------------------------------------------------
(* epoll_server.c                                                          *)

\* The invariant of epoll_server.c contains its types.
LEMMA SimpleTyped == SimpleInv => Simple!TypeOK
<1>1. Simple!TcpTypeOK <=> TcpTypeOK
  BY DEF Simple!TcpTypeOK, TcpTypeOK
<1> QED
  BY <1>1 DEF SimpleInv, Hand, HandType, EventType, Simple!TypeOK,
              Simple!Items

\* epoll_server.c begins with no event and no bytes in hand.
LEMMA SimpleInit ==
    ASSUME Simple!Init
    PROVE  SimpleInv
<1>1. TcpInit /\ cur \in Conns /\ unsent = <<>> /\ at = "loop"
      /\ aborted = FALSE /\ DOMAIN events = {}
  BY DEF Simple!Init, Simple!TcpInit, TcpInit, Simple!Nothing
<1>2. Hand
  BY <1>1, HandInit
<1> QED
  BY <1>1, <1>2 DEF SimpleInv, EventType, EventsHold

\* The clients of epoll_server.c.
LEMMA SimpleClient ==
    ASSUME SimpleInv, NEW c \in Conns, Simple!Client(c)
    PROVE  SimpleInv' /\ EchoStep
<1>1. ClientStep(c) /\ UNCHANGED <<at, aborted, events, cur, unsent>>
  BY DEF Simple!Client, Simple!ClientConnect, Simple!ClientSend,
         Simple!ClientFinish, Simple!ClientReset, Simple!ClientReceive,
         Simple!Connect, Simple!Send, Simple!Finish, Simple!Reset,
         Simple!Receive, Simple!serverVars, Connect, Send, Finish, Reset,
         Receive, ClientStep
<1>2. Hand' /\ EchoStep
  BY <1>1, HandClient DEF SimpleInv
<1>3. \A d \in Conns : /\ conn[d] = "open" => conn'[d] = "open"
                       /\ rst[d] => rst'[d]
  BY <1>1 DEF ClientStep, Connect, Send, Finish, Reset, Receive,
              SimpleInv, Hand, HandType, TcpTypeOK
<1>4. cur \in Conns
  BY DEF SimpleInv, Hand, HandType
<1>5. EventsHold(events) => EventsHold(events)'
  BY <1>1, <1>3 DEF EventsHold
<1>6. EventType(events)' <=> EventType(events)
  BY <1>1 DEF EventType
<1> QED
  BY <1>1, <1>2, <1>3, <1>4, <1>5, <1>6 DEF SimpleInv

\* epoll_wait reports what holds now.
LEMMA SimpleWait ==
    ASSUME SimpleInv, Simple!EpollWait
    PROVE  SimpleInv' /\ EchoStep
<1>1. /\ at = "loop" /\ UNCHANGED <<tcpVars, at, aborted, cur, unsent>>
      /\ events' = [i \in {j \in Simple!Open \cup {Listener} :
                              Simple!Reported(j) # {}} |-> Simple!Reported(i)]
  BY DEF Simple!EpollWait, Simple!tcpVars, tcpVars
<1>2. Hand' /\ EchoStep
  BY <1>1, HandSame DEF SimpleInv
<1>3. \A i : /\ Simple!Reported(i) \subseteq {"in", "hup"}
             /\ i # Listener /\ "hup" \in Simple!Reported(i) => rst[i]
  BY DEF Simple!Reported
<1>4. \A i \in DOMAIN events' :
         /\ i \in Simple!Open \cup {Listener}
         /\ events'[i] = Simple!Reported(i)
  BY <1>1
<1>5. EventType(events)'
  BY <1>3, <1>4 DEF EventType, Simple!Open
<1>6. EventsHold(events)'
  <2>1. ASSUME NEW c \in Conns, c \in DOMAIN events'
        PROVE  conn'[c] = "open" /\ ("hup" \in events'[c] => rst'[c])
    <3>1. c # Listener
      BY ListenerAssumption
    <3>2. conn[c] = "open"
      BY <1>4, <2>1, <3>1 DEF Simple!Open
    <3>3. "hup" \in events'[c] => rst[c]
      BY <1>3, <1>4, <2>1, <3>1
    <3> QED
      BY <1>1, <3>2, <3>3 DEF tcpVars
  <2> QED
    BY <2>1 DEF EventsHold
<1> QED
  BY <1>1, <1>2, <1>5, <1>6 DEF SimpleInv, tcpVars

\* An item that is handled is reported no more.
LEMMA SimpleHandle ==
    ASSUME SimpleInv, NEW i, Simple!Handle(i)
    PROVE  /\ at = "loop" /\ unsent = <<>> /\ i \in DOMAIN events
           /\ EventType(events)' /\ EventsHold(events)
           /\ DOMAIN events' = DOMAIN events \ {i}
           /\ \A j \in DOMAIN events' : events'[j] = events[j]
  BY DEF Simple!Handle, SimpleInv, EventType

\* The end of epoll_server.c drops the connections it has.
LEMMA SimpleExit ==
    ASSUME SimpleInv, NEW b \in BOOLEAN, Simple!Exit(b),
           unsent = <<>> \/ conn[cur] = "open", EventType(events)'
    PROVE  SimpleInv' /\ EchoStep
<1>1. SockExit /\ at' = "exit" /\ aborted' = b /\ unsent' = <<>> /\ cur' = cur
  BY DEF Simple!Exit, Simple!SockExit, SockExit
<1>2. Hand' /\ EchoStep
  BY <1>1, HandExit DEF SimpleInv
<1> QED
  BY <1>1, <1>2 DEF SimpleInv

\* An accept of epoll_server.c adds an item that has no bytes in hand.
LEMMA SimpleAccept ==
    ASSUME SimpleInv, NEW c \in Conns, Simple!Accept(c)
    PROVE  SimpleInv' /\ EchoStep
<1>1. /\ Simple!Handle(Listener) /\ conn[c] = "backlog"
      /\ conn' = [conn EXCEPT ![c] = "open"]
      /\ UNCHANGED <<sent, fin, rst, rcvq, sndq, got,
                     at, aborted, cur, unsent>>
  BY DEF Simple!Accept, Simple!Backlog
<1>2. /\ at = "loop" /\ unsent = <<>>
      /\ EventType(events)' /\ EventsHold(events)
      /\ DOMAIN events' = DOMAIN events \ {Listener}
      /\ \A j \in DOMAIN events' : events'[j] = events[j]
  BY <1>1, SimpleHandle
<1>3. Hand' /\ EchoStep
  BY <1>1, <1>2, HandAccept DEF SimpleInv, Hand, HandType
<1>4. \A d \in Conns : conn[d] = "open" => conn'[d] = "open"
  BY <1>1 DEF SimpleInv, Hand, HandType, TcpTypeOK
<1>5. EventsHold(events)'
  BY <1>1, <1>2, <1>4 DEF EventsHold
<1> QED
  BY <1>1, <1>2, <1>3, <1>5 DEF SimpleInv

\* A connection is closed after a reset, or at the end of the stream.
LEMMA SimpleClose ==
    ASSUME SimpleInv, NEW c \in Conns, Simple!Handle(c),
           Simple!CloseConnection(c), rst[c] \/ (fin[c] /\ rcvq[c] = <<>>)
    PROVE  SimpleInv' /\ EchoStep
<1>1. SockClose(c) /\ UNCHANGED <<at, aborted, cur, unsent>>
  BY DEF Simple!CloseConnection, Simple!SockClose, SockClose
<1>2. /\ at = "loop" /\ unsent = <<>> /\ c \in DOMAIN events
      /\ EventType(events)' /\ EventsHold(events)
      /\ DOMAIN events' = DOMAIN events \ {c}
      /\ \A j \in DOMAIN events' : events'[j] = events[j]
  BY SimpleHandle
<1>3. conn[c] = "open"
  BY <1>2 DEF EventsHold
<1>4. /\ Hand' /\ EchoStep
      /\ rst' = rst /\ \A d \in Conns \ {c} : conn'[d] = conn[d]
  BY <1>1, <1>2, <1>3, HandClose DEF SimpleInv
<1>5. EventsHold(events)'
  BY <1>2, <1>4 DEF EventsHold
<1> QED
  BY <1>1, <1>2, <1>4, <1>5 DEF SimpleInv

\* A read of epoll_server.c takes the next bytes in hand.
LEMMA SimpleRead ==
    ASSUME SimpleInv, NEW c \in Conns, NEW n \in 1 .. BufSize,
           Simple!Read(c, n)
    PROVE  SimpleInv' /\ EchoStep
<1>1. /\ Simple!Handle(c) /\ conn[c] = "open" /\ n <= Len(rcvq[c])
      /\ SockRead(c, n) /\ at' = "write" /\ cur' = c
      /\ unsent' = SubSeq(rcvq[c], 1, n) /\ aborted' = aborted
  BY DEF Simple!Read, Simple!Reading, Simple!Open, Simple!SockRead, SockRead
<1>2. /\ at = "loop" /\ unsent = <<>>
      /\ EventType(events)' /\ EventsHold(events)
      /\ DOMAIN events' = DOMAIN events \ {c}
      /\ \A j \in DOMAIN events' : events'[j] = events[j]
  BY <1>1, SimpleHandle
<1>3. Hand' /\ EchoStep /\ unsent' # <<>> /\ conn' = conn /\ rst' = rst
  BY <1>1, <1>2, HandRead DEF SimpleInv
<1>4. EventsHold(events)'
  BY <1>2, <1>3 DEF EventsHold
<1> QED
  BY <1>1, <1>2, <1>3, <1>4 DEF SimpleInv

\* A write of epoll_server.c puts the next bytes out.
LEMMA SimpleWrite ==
    ASSUME SimpleInv, NEW c \in Conns, NEW n \in 1 .. BufSize,
           Simple!Write(c, n)
    PROVE  SimpleInv' /\ EchoStep
<1>1. /\ at = "write" /\ c = cur /\ ~rst[cur]
      /\ n \in 1 .. Len(unsent) /\ Len(sndq[cur]) + n <= SndCap
      /\ SockWrite(cur, SubSeq(unsent, 1, n))
      /\ unsent' = SubSeq(unsent, n + 1, Len(unsent))
      /\ at' = IF n = Len(unsent) THEN "loop" ELSE "write"
      /\ UNCHANGED <<aborted, events, cur>>
  BY DEF Simple!Write, Simple!Taken, Simple!SockWrite, SockWrite
<1>2. conn[cur] = "open" /\ EventsHold(events) /\ EventType(events)
  BY <1>1 DEF SimpleInv
<1>3. /\ Hand' /\ EchoStep
      /\ unsent' = <<>> <=> n = Len(unsent)
      /\ conn' = conn /\ rst' = rst
  BY <1>1, <1>2, HandWrite DEF SimpleInv
<1>4. EventsHold(events)' /\ EventType(events)'
  BY <1>1, <1>2, <1>3 DEF EventsHold, EventType
<1> QED
  BY <1>1, <1>2, <1>3, <1>4 DEF SimpleInv

\* Every step of epoll_server.c.
LEMMA SimpleStep ==
    ASSUME SimpleInv, Simple!Server
    PROVE  SimpleInv' /\ EchoStep
<1>1. CASE Simple!AcceptError
  BY <1>1, SimpleHandle, SimpleExit DEF Simple!AcceptError
<1>2. ASSUME NEW c \in Conns, Simple!Hangup(c)
      PROVE  SimpleInv' /\ EchoStep
  <2>1. /\ Simple!Handle(c) /\ Simple!CloseConnection(c)
        /\ "hup" \in events[c]
    BY <1>2 DEF Simple!Hangup
  <2>2. rst[c]
    BY <2>1, SimpleHandle DEF EventsHold
  <2> QED
    BY <2>1, <2>2, SimpleClose
<1>3. ASSUME NEW c \in Conns, Simple!ReadOverrun(c)
      PROVE  SimpleInv' /\ EchoStep
  BY <1>3, SimpleHandle, SimpleExit DEF Simple!ReadOverrun, Simple!Reading
<1>4. ASSUME NEW c \in Conns, Simple!ReadEnd(c)
      PROVE  SimpleInv' /\ EchoStep
  BY <1>4, SimpleClose DEF Simple!ReadEnd, Simple!Reading
<1>5. ASSUME NEW c \in Conns, Simple!WriteError(c)
      PROVE  SimpleInv' /\ EchoStep
  <2>1. /\ at = "write" /\ events' = events
        /\ \E b \in {TRUE, ~fin[c]} : Simple!Exit(b)
    BY <1>5 DEF Simple!WriteError
  <2>2. conn[cur] = "open" /\ EventType(events)' /\ fin[c] \in BOOLEAN
    BY <2>1 DEF SimpleInv, EventType, Hand, HandType, TcpTypeOK
  <2>3. PICK b \in BOOLEAN : Simple!Exit(b)
    BY <2>1, <2>2
  <2> QED
    BY <2>2, <2>3, SimpleExit
<1>6. ASSUME NEW c \in Conns, Simple!Handler(c)
      PROVE  SimpleInv' /\ EchoStep
  BY <1>2, <1>3, <1>4, <1>5, <1>6, SimpleAccept, SimpleRead, SimpleWrite
     DEF Simple!Handler
<1> QED
  BY <1>1, <1>6, SimpleWait DEF Simple!Server

-----------------------------------------------------------------------------
(* tcp_server.c                                                            *)

\* The invariant of tcp_server.c contains its types.
LEMMA TurnTyped == TurnInv => Sequential!TypeOK
<1>1. Sequential!TcpTypeOK <=> TcpTypeOK
  BY DEF Sequential!TcpTypeOK, TcpTypeOK
<1> QED
  BY <1>1 DEF TurnInv, Hand, HandType, Sequential!TypeOK

\* tcp_server.c begins with no client and no bytes in hand.
LEMMA TurnInit ==
    ASSUME Sequential!Init
    PROVE  TurnInv
<1>1. TcpInit /\ cur \in Conns /\ unsent = <<>> /\ at = "accept"
      /\ aborted = FALSE
  BY DEF Sequential!Init, Sequential!TcpInit, TcpInit
<1>2. Hand
  BY <1>1, HandInit
<1> QED
  BY <1>1, <1>2 DEF TurnInv

\* The clients of tcp_server.c.
LEMMA TurnClient ==
    ASSUME TurnInv, NEW c \in Conns, Simple!Client(c)
    PROVE  TurnInv' /\ EchoStep
<1>1. ClientStep(c) /\ UNCHANGED <<at, aborted, cur, unsent>>
  BY DEF Simple!Client, Simple!ClientConnect, Simple!ClientSend,
         Simple!ClientFinish, Simple!ClientReset, Simple!ClientReceive,
         Simple!Connect, Simple!Send, Simple!Finish, Simple!Reset,
         Simple!Receive, Simple!serverVars, Connect, Send, Finish, Reset,
         Receive, ClientStep
<1>2. Hand' /\ EchoStep
  BY <1>1, HandClient DEF TurnInv
<1>3. conn[cur] = "open" => conn'[cur] = "open"
  BY <1>1 DEF ClientStep, Connect, Send, Finish, Reset, Receive,
              TurnInv, Hand, HandType, TcpTypeOK
<1> QED
  BY <1>1, <1>2, <1>3 DEF TurnInv

\* An accept of tcp_server.c turns to a client with nothing in hand.
LEMMA TurnAccept ==
    ASSUME TurnInv, NEW c \in Conns, Sequential!Accept(c)
    PROVE  TurnInv' /\ EchoStep
<1>1. /\ at = "accept" /\ conn[c] = "backlog"
      /\ conn' = [conn EXCEPT ![c] = "open"]
      /\ at' = "read" /\ cur' = c
      /\ UNCHANGED <<sent, fin, rst, rcvq, sndq, got, aborted, unsent>>
  BY DEF Sequential!Accept, Sequential!Backlog
<1>2. unsent = <<>> /\ conn'[c] = "open"
  BY <1>1 DEF TurnInv, Hand, HandType, TcpTypeOK
<1>3. Hand' /\ EchoStep
  BY <1>1, <1>2, HandAccept DEF TurnInv
<1> QED
  BY <1>1, <1>2, <1>3 DEF TurnInv

\* The end of tcp_server.c drops the connections it has.
LEMMA TurnExit ==
    ASSUME TurnInv, NEW b \in BOOLEAN, Sequential!Exit(b)
    PROVE  TurnInv' /\ EchoStep
<1>1. SockExit /\ at' = "exit" /\ aborted' = b /\ unsent' = <<>> /\ cur' = cur
  BY DEF Sequential!Exit, Sequential!SockExit, SockExit
<1>2. unsent = <<>> \/ conn[cur] = "open"
  BY DEF TurnInv
<1>3. Hand' /\ EchoStep
  BY <1>1, <1>2, HandExit DEF TurnInv
<1> QED
  BY <1>1, <1>3 DEF TurnInv

\* The client is closed after a reset, or at the end of its stream.
LEMMA TurnClose ==
    ASSUME TurnInv, at \in {"read", "write"}, Sequential!CloseClient,
           \/ rst[cur]
           \/ at = "read" /\ fin[cur] /\ rcvq[cur] = <<>>
    PROVE  TurnInv' /\ EchoStep
<1>1. SockClose(cur) /\ at' = "accept" /\ unsent' = <<>>
      /\ UNCHANGED <<aborted, cur>>
  BY DEF Sequential!CloseClient, Sequential!SockClose, SockClose
<1>2. /\ cur \in Conns /\ conn[cur] = "open" /\ Hand
      /\ at = "read" => unsent = <<>>
  BY DEF TurnInv, Hand, HandType
<1>3. Hand' /\ EchoStep
  BY <1>1, <1>2, HandClose
<1> QED
  BY <1>1, <1>3 DEF TurnInv

\* A read of tcp_server.c takes the next bytes in hand.
LEMMA TurnRead ==
    ASSUME TurnInv, NEW n \in 1 .. BufSize, Sequential!Read(n)
    PROVE  TurnInv' /\ EchoStep
<1>1. /\ at = "read" /\ n <= Len(rcvq[cur])
      /\ SockRead(cur, n) /\ at' = "write" /\ cur' = cur
      /\ unsent' = SubSeq(rcvq[cur], 1, n) /\ aborted' = aborted
  BY DEF Sequential!Read, Sequential!SockRead, SockRead
<1>2. /\ cur \in Conns /\ conn[cur] = "open" /\ Hand /\ unsent = <<>>
  BY <1>1 DEF TurnInv, Hand, HandType
<1>3. Hand' /\ EchoStep /\ unsent' # <<>> /\ conn' = conn
  BY <1>1, <1>2, HandRead
<1> QED
  BY <1>1, <1>2, <1>3 DEF TurnInv

\* A write of tcp_server.c puts the next bytes out.
LEMMA TurnWrite ==
    ASSUME TurnInv, NEW n \in 1 .. BufSize, Sequential!Write(n)
    PROVE  TurnInv' /\ EchoStep
<1>1. /\ at \in {"write", "part"} /\ ~rst[cur]
      /\ n \in 1 .. Len(unsent) /\ Len(sndq[cur]) + n <= SndCap
      /\ SockWrite(cur, SubSeq(unsent, 1, n))
      /\ unsent' = SubSeq(unsent, n + 1, Len(unsent))
      /\ at' = IF n = Len(unsent) THEN "read" ELSE "part"
      /\ UNCHANGED <<aborted, cur>>
  BY DEF Sequential!Write, Sequential!SockWrite, SockWrite
<1>2. conn[cur] = "open" /\ Hand
  BY <1>1 DEF TurnInv
<1>3. /\ Hand' /\ EchoStep
      /\ unsent' = <<>> <=> n = Len(unsent)
      /\ conn' = conn
  BY <1>1, <1>2, HandWrite
<1> QED
  BY <1>1, <1>2, <1>3 DEF TurnInv

\* Every step of tcp_server.c.
LEMMA TurnStep ==
    ASSUME TurnInv, Sequential!Server
    PROVE  TurnInv' /\ EchoStep
<1>1. CASE Sequential!AcceptError
  BY <1>1, TurnExit DEF Sequential!AcceptError
<1>2. CASE Sequential!ReadEnd
  BY <1>2, TurnClose DEF Sequential!ReadEnd
<1>3. CASE Sequential!WriteError
  BY <1>3, TurnClose, TurnExit DEF Sequential!WriteError
<1>4. CASE Sequential!WriteShort
  BY <1>4, TurnExit DEF Sequential!WriteShort
<1> QED
  BY <1>1, <1>2, <1>3, <1>4, TurnAccept, TurnRead, TurnWrite
     DEF Sequential!Server

-----------------------------------------------------------------------------
(* The three servers                                                       *)

\* Whichever server is started begins as the service does.
LEMMA BlockingInit ==
    ASSUME MCInit
    PROVE  BlockingInv /\ Service!Init
<1>1. Inv /\ Service!Init
  BY InvInit, EchoInit DEF MCInit, Init
<1>2. CASE program = "threading_server"
  BY <1>1, <1>2 DEF BlockingInv
<1>3. CASE program = "epoll_server"
  BY <1>1, <1>3, SimpleInit DEF MCInit, BlockingInv
<1>4. CASE program = "tcp_server"
  BY <1>1, <1>4, TurnInit DEF MCInit, BlockingInv
<1> QED
  BY <1>2, <1>3, <1>4 DEF MCInit

\* A stutter.
LEMMA BlockingSame ==
    ASSUME BlockingInv, UNCHANGED mcVars
    PROVE  BlockingInv' /\ EchoStep
<1>1. /\ UNCHANGED <<vars, tcpVars, program>>
      /\ UNCHANGED <<at, aborted, events, cur, unsent>>
  BY DEF mcVars, vars, loopVars
<1>2. Hand => Hand' /\ EchoStep
  BY <1>1, HandSame
<1>3. Inv => Inv' /\ EchoStep
  BY <1>1, InvStep
<1>4. SimpleInv => SimpleInv' /\ EchoStep
  BY <1>1, <1>2 DEF SimpleInv, EventType, EventsHold, tcpVars
<1>5. TurnInv => TurnInv' /\ EchoStep
  BY <1>1, <1>2 DEF TurnInv, tcpVars
<1> QED
  BY <1>1, <1>3, <1>4, <1>5 DEF BlockingInv

\* Every step of the server that was started, and of its clients.
LEMMA BlockingStep ==
    ASSUME BlockingInv, [MCNext]_mcVars
    PROVE  BlockingInv' /\ EchoStep
<1>1. CASE Threads(Next)
  BY <1>1, InvStep DEF Threads, BlockingInv
<1>2. CASE ByEpoll(Simple!Server)
  BY <1>2, SimpleStep DEF ByEpoll, BlockingInv
<1>3. CASE InTurn(Sequential!Server /\ UNCHANGED events)
  BY <1>3, TurnStep DEF InTurn, BlockingInv
<1>4. ASSUME NEW c \in Conns, ByEpoll(Simple!Client(c))
      PROVE  BlockingInv' /\ EchoStep
  BY <1>4, SimpleClient DEF ByEpoll, BlockingInv
<1>5. ASSUME NEW c \in Conns, InTurn(Simple!Client(c))
      PROVE  BlockingInv' /\ EchoStep
  BY <1>5, TurnClient DEF InTurn, BlockingInv
<1> QED
  BY <1>1, <1>2, <1>3, <1>4, <1>5, BlockingSame DEF MCNext, Loop

\* The one buffer of epoll_server.c and tcp_server.c is empty but between a
\* read and the end of the write it is for, and epoll_wait's answers stay
\* within the items that were added, in every state of the two servers.
THEOREM TypesCorrect == MCSpec => []TypesOK
<1>1. BlockingInv => TypesOK
  BY SimpleTyped, TurnTyped DEF BlockingInv, TypesOK
<1>2. BlockingInv /\ [MCNext]_mcVars => BlockingInv'
  BY BlockingStep
<1> QED
  BY <1>1, <1>2, BlockingInit, PTL DEF MCSpec

\* Whichever of the three servers runs, with its blocking writes cut by the
\* send buffer, its assertions and its resets, clients see the abstract echo
\* service.
THEOREM BlockingImplement == MCSpec => ImplementsEchoService
<1>1. BlockingInv /\ [MCNext]_mcVars =>
         BlockingInv' /\ [Service!Next]_(Service!vars)
  BY BlockingStep DEF EchoStep
<1> QED
  BY <1>1, BlockingInit, PTL DEF MCSpec, ImplementsEchoService, Service!Spec

\* Whatever the interleaving of the three servers' blocking calls with their
\* clients, a client has the beginning of what it sent, and once its connection
\* is closed by the server all of it is with it or under way.
THEOREM BlockingPromise == MCSpec => []EchoPromised
  BY BlockingImplement, ServiceKeeps, PTL
=============================================================================
