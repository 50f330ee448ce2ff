----------------------- MODULE EpollServerFastProofs -----------------------
(***************************************************************************)
(* What holds of EpollServerFast for every number of clients, every stream *)
(* length and every size of the buffers.                                   *)
(***************************************************************************)
EXTENDS EpollServerFast, EchoLemmas

-----------------------------------------------------------------------------
(* Types, and the bounds on socket_state_t that make its reads and writes  *)
(* stay within buf.                                                        *)

Typed == TypeOK /\ ReadIntoEmptyBuffer

\* The server begins well typed and with empty buffers.
LEMMA TypedInit == Init => Typed
  BY SocketAssumption, FastAssumption
     DEF Init, TcpInit, Typed, TypeOK, TcpTypeOK, ReadIntoEmptyBuffer

\* The queues and counters of one client.
LEMMA TypedAt ==
    ASSUME Typed, NEW c \in Conns
    PROVE  /\ sent[c] \in 0 .. MaxSent
           /\ rcvq[c] \in Seq(Nat) /\ Len(rcvq[c]) <= RcvCap
           /\ sndq[c] \in Seq(Nat) /\ Len(sndq[c]) <= SndCap
           /\ got[c] \in Seq(Nat)
           /\ buf[c] \in [1 .. BufSize -> Nat]
           /\ bufBegin[c] \in Nat /\ bufEnd[c] \in Nat
           /\ bufBegin[c] <= bufEnd[c] /\ bufEnd[c] <= BufSize
           /\ Len(rcvq[c]) \in Nat /\ Len(sndq[c]) \in Nat
  BY LenProperties DEF Typed, TypeOK, TcpTypeOK, ReadIntoEmptyBuffer

\* The capacities as numbers, for the leaves about lengths.
LEMMA BoundsAreNaturals ==
    /\ MaxSent \in Nat /\ RcvCap \in Nat \ {0} /\ SndCap \in Nat \ {0}
    /\ BufSize \in Nat \ {0}
    /\ <<>> \in Seq(Nat) /\ Len(<<>>) = 0
  BY SocketAssumption, FastAssumption, EmptySeq

\* The steps of the clients leave the server's state alone.
LEMMA TypedClient ==
    ASSUME Typed, NEW c \in Conns, Client(c)
    PROVE  Typed'
<1> USE DEF serverVars, loopVars, callVars, stateVars, epollVars, Edge, Items
<1>1. ASSUME TcpTypeOK', rdy' \subseteq Items, UNCHANGED serverVars,
             nospace' \in [Conns -> BOOLEAN]
      PROVE  Typed'
  BY <1>1 DEF Typed, TypeOK, ReadIntoEmptyBuffer
<1>2. TcpTypeOK /\ rdy \subseteq Items /\ nospace \in [Conns -> BOOLEAN]
  BY DEF Typed, TypeOK
<1>3. CASE ClientConnect(c)
  <2>1. TcpTypeOK'
    BY <1>2, <1>3 DEF ClientConnect, Connect, TcpTypeOK
  <2>2. QED
    BY <1>1, <1>2, <1>3, <2>1 DEF ClientConnect
<1>4. CASE ClientSend(c)
  <2>1. /\ Append(rcvq[c], sent[c] + 1) \in Seq(Nat)
        /\ Len(Append(rcvq[c], sent[c] + 1)) = Len(rcvq[c]) + 1
    BY TypedAt, AppendByte, BoundsAreNaturals
  <2>2. /\ Len(rcvq[c]) + 1 <= RcvCap
        /\ sent[c] + 1 \in 0 .. MaxSent
    BY <1>4, TypedAt, BoundsAreNaturals DEF ClientSend, Send
  <2>3. TcpTypeOK'
    BY <1>2, <1>4, <2>1, <2>2 DEF ClientSend, Send, TcpTypeOK
  <2>4. QED
    BY <1>1, <1>2, <1>4, <2>3 DEF ClientSend
<1>5. CASE ClientFinish(c)
  <2>1. TcpTypeOK'
    BY <1>2, <1>5 DEF ClientFinish, Finish, TcpTypeOK
  <2>2. QED
    BY <1>1, <1>2, <1>5, <2>1 DEF ClientFinish
<1>6. CASE ClientReset(c)
  <2>1. TcpTypeOK'
    BY <1>2, <1>6, BoundsAreNaturals DEF ClientReset, Reset, TcpTypeOK
  <2>2. QED
    BY <1>1, <1>2, <1>6, <2>1 DEF ClientReset
<1>7. CASE ClientReceive(c)
  <2>1. sndq[c] # <<>>
    BY <1>7 DEF ClientReceive, Receive
  <2>2. /\ Tail(sndq[c]) \in Seq(Nat) /\ Len(Tail(sndq[c])) = Len(sndq[c]) - 1
        /\ Append(got[c], Head(sndq[c])) \in Seq(Nat)
    BY <2>1, TypedAt, TakeByte, AppendByte
  <2>3. Len(Tail(sndq[c])) <= SndCap
    BY <2>2, TypedAt, BoundsAreNaturals
  <2>4. TcpTypeOK'
    BY <1>2, <1>7, <2>2, <2>3 DEF ClientReceive, Receive, TcpTypeOK
  <2>5. rdy' \subseteq Items /\ nospace' \in [Conns -> BOOLEAN]
    BY <1>2, <1>7 DEF ClientReceive, Open
  <2>6. QED
    BY <1>1, <1>7, <2>4, <2>5 DEF ClientReceive
<1>8. QED
  BY <1>3, <1>4, <1>5, <1>6, <1>7 DEF Client

\* Closing a connection is the same call at four places.
LEMMA TypedClose ==
    ASSUME Typed, NEW c \in Conns, CloseConnection(c)
    PROVE  /\ TcpTypeOK'
           /\ rdy' \subseteq rdy
           /\ nospace' \in [Conns -> BOOLEAN]
           /\ buf' \in [Conns -> [1 .. BufSize -> Nat]]
           /\ bufBegin' \in [Conns -> Nat]
           /\ bufEnd' \in [Conns -> Nat]
           /\ bufBegin'[c] = 0 /\ bufEnd'[c] = 0
           /\ \A d \in Conns : bufBegin'[d] <= bufEnd'[d]
                               /\ bufEnd'[d] <= BufSize
<1>1. TcpTypeOK'
  <2> DEFINE lossy == rcvq[c] # <<>> /\ ~rst[c]
  <2>1. /\ conn' = [conn EXCEPT ![c] = IF lossy THEN "aborted" ELSE "closed"]
        /\ sndq' = [sndq EXCEPT ![c] = IF lossy THEN <<>> ELSE sndq[c]]
        /\ UNCHANGED <<sent, fin, rst, rcvq, got>>
    BY DEF CloseConnection, SockClose
  <2>2. /\ (IF lossy THEN <<>> ELSE sndq[c]) \in Seq(Nat)
        /\ Len(IF lossy THEN <<>> ELSE sndq[c]) <= SndCap
    BY TypedAt, BoundsAreNaturals
  <2>3. QED
    BY <2>1, <2>2 DEF Typed, TypeOK, TcpTypeOK
<1>2. /\ rdy' \subseteq rdy
      /\ nospace' \in [Conns -> BOOLEAN]
      /\ buf' \in [Conns -> [1 .. BufSize -> Nat]]
  BY DEF Typed, TypeOK, CloseConnection
<1>3. /\ bufBegin' = [bufBegin EXCEPT ![c] = 0] /\ bufBegin \in [Conns -> Nat]
      /\ bufEnd' = [bufEnd EXCEPT ![c] = 0] /\ bufEnd \in [Conns -> Nat]
  BY DEF Typed, TypeOK, CloseConnection
<1>4. \A d \in Conns : bufBegin'[d] <= bufEnd'[d] /\ bufEnd'[d] <= BufSize
  BY <1>3, TypedAt, BoundsAreNaturals
<1>5. QED
  BY <1>1, <1>2, <1>3, <1>4

\* Every step of the server keeps types and the empty buffer before a read.
LEMMA TypedServer == Typed /\ Server => Typed'
<1> SUFFICES ASSUME Typed, Server PROVE Typed'
  OBVIOUS
<1> USE DEF serverVars, loopVars, callVars, stateVars, epollVars, tcpVars,
            Items
<1>1. CASE EpollWait
  BY <1>1 DEF Typed, TypeOK, EpollWait, TcpTypeOK, ReadIntoEmptyBuffer
<1>2. CASE HandleConnEvent
  BY <1>2 DEF Typed, TypeOK, HandleConnEvent, TcpTypeOK, ReadIntoEmptyBuffer
<1>3. CASE AcceptAgain
  BY <1>3 DEF Typed, TypeOK, AcceptAgain, TcpTypeOK, ReadIntoEmptyBuffer
<1>4. CASE AcceptError
  BY <1>4 DEF Typed, TypeOK, AcceptError, SockExit, TcpTypeOK,
              ReadIntoEmptyBuffer
<1>5. ASSUME NEW c \in Conns, HandleHangup(c) PROVE Typed'
  BY <1>5, TypedClose DEF Typed, TypeOK, HandleHangup, ReadIntoEmptyBuffer
<1>6. ASSUME NEW c \in Conns, HandleClientEvent(c) PROVE Typed'
  <2>1. bufEnd'[c] = 0 => bufBegin'[c] = 0
    BY <1>6, TypedAt DEF HandleClientEvent
  <2>2. TypeOK'
    BY <1>6 DEF Typed, TypeOK, TcpTypeOK, HandleClientEvent, Serve
  <2>3. QED
    BY <1>6, <2>1, <2>2
       DEF Typed, HandleClientEvent, Serve, ReadIntoEmptyBuffer
<1>7. ASSUME NEW c \in Conns, Accept(c) PROVE Typed'
  <2>1. TypeOK'
    BY <1>7 DEF Typed, TypeOK, TcpTypeOK, Accept, Serve
  <2>2. ReadIntoEmptyBuffer'
    BY <1>7, BoundsAreNaturals
       DEF Typed, TypeOK, Accept, Serve, ReadIntoEmptyBuffer
  <2>3. QED
    BY <2>1, <2>2 DEF Typed
<1>8. ASSUME NEW c \in Conns, WriteAgain(c) PROVE Typed'
  BY <1>8 DEF Typed, TypeOK, WriteAgain, TcpTypeOK, ReadIntoEmptyBuffer
<1>9. ASSUME NEW c \in Conns, ReadAgain(c) PROVE Typed'
  BY <1>9 DEF Typed, TypeOK, ReadAgain, TcpTypeOK, ReadIntoEmptyBuffer
<1>10. ASSUME NEW c \in Conns, Disconnect(c) PROVE Typed'
  BY <1>10, TypedClose
     DEF Typed, TypeOK, Disconnect, Ended, ReadIntoEmptyBuffer
<1>11. ASSUME NEW c \in Conns, NEW n \in 1 .. BufSize, ClientWrite(c, n)
       PROVE  Typed'
  <2> DEFINE data == SubSeq(buf[c], bufBegin[c] + 1, bufBegin[c] + n)
  <2>1. /\ n \in Nat /\ bufBegin[c] + n <= bufEnd[c]
        /\ n <= SndCap - Len(sndq[c])
    BY <1>11, TypedAt DEF ClientWrite, Taken, Drained
  <2>2. \A i \in bufBegin[c] + 1 .. bufBegin[c] + n : buf[c][i] \in Nat
    BY <2>1, TypedAt, BoundsAreNaturals, SMTT(40)
  <2>3. bufBegin[c] \in Nat /\ bufBegin[c] + n \in Nat
        /\ bufBegin[c] <= bufBegin[c] + n
    BY <2>1, TypedAt
  <2>4. data \in Seq(Nat) /\ Len(data) = bufBegin[c] + n - bufBegin[c]
    BY <2>2, <2>3, Slice
  <2>5. sndq[c] \o data \in Seq(Nat) /\ Len(sndq[c] \o data) <= SndCap
    <3>1. sndq[c] \in Seq(Nat) /\ Len(sndq[c]) \in Nat /\ Len(data) = n
      BY <2>1, <2>3, <2>4, TypedAt
    <3>2. /\ sndq[c] \o data \in Seq(Nat)
          /\ Len(sndq[c] \o data) = Len(sndq[c]) + Len(data)
      BY <2>4, <3>1, ConcatLen
    <3>3. QED
      BY <2>1, <3>1, <3>2, BoundsAreNaturals
  <2>6. TcpTypeOK'
    BY <1>11, <2>5
       DEF Typed, TypeOK, ClientWrite, Taken, Drained, SockWrite, TcpTypeOK
  <2>7. CASE bufBegin[c] + n = bufEnd[c]
    <3>1. /\ bufBegin' = [bufBegin EXCEPT ![c] = 0]
          /\ bufEnd' = [bufEnd EXCEPT ![c] = 0] /\ pc' = "read"
      BY <1>11, <2>7 DEF ClientWrite, Taken, Drained
    <3>2. TypeOK'
      BY <1>11, <2>6, <3>1 DEF Typed, TypeOK, ClientWrite, Taken, Drained
    <3>3. ReadIntoEmptyBuffer'
      BY <1>11, <3>1, TypedAt, BoundsAreNaturals
         DEF Typed, TypeOK, ClientWrite, Taken, Drained, ReadIntoEmptyBuffer
    <3>4. QED
      BY <3>2, <3>3 DEF Typed
  <2>8. CASE bufBegin[c] + n # bufEnd[c]
    <3>1. /\ bufBegin' = [bufBegin EXCEPT ![c] = bufBegin[c] + n]
          /\ bufEnd' = bufEnd /\ pc' = pc
      BY <1>11, <2>8 DEF ClientWrite, Taken, Drained
    <3>2. TypeOK'
      BY <1>11, <2>3, <2>6, <3>1 DEF Typed, TypeOK, ClientWrite, Taken, Drained
    <3>3. pc' # "read"
      BY <1>11, <3>1 DEF ClientWrite, Taken, Drained
    <3>4. \A d \in Conns : bufBegin'[d] <= bufEnd'[d] /\ bufEnd'[d] <= BufSize
      BY <2>1, <3>1, TypedAt DEF Typed, TypeOK
    <3>5. QED
      BY <3>2, <3>3, <3>4 DEF Typed, ReadIntoEmptyBuffer
  <2>9. QED
    BY <2>7, <2>8
<1>12. ASSUME NEW c \in Conns, NEW n \in 1 .. BufSize, ClientRead(c, n)
       PROVE  Typed'
  <2>1. n \in Nat /\ n <= Len(rcvq[c]) /\ c = cur /\ pc = "read"
    BY <1>12 DEF ClientRead
  <2>2. \A i \in 1 .. Len(rcvq[c]) : rcvq[c][i] \in Nat
    BY TypedAt, ElementOfSeq
  <2>3. /\ SubSeq(rcvq[c], n + 1, Len(rcvq[c])) \in Seq(Nat)
        /\ Len(SubSeq(rcvq[c], n + 1, Len(rcvq[c]))) = Len(rcvq[c]) - n
    <3>1. \A i \in n + 1 .. Len(rcvq[c]) : rcvq[c][i] \in Nat
      BY <2>1, <2>2, TypedAt
    <3>2. QED
      BY <2>1, <3>1, TypedAt, Slice
  <2>4. TcpTypeOK'
    <3>1. Len(rcvq[c]) - n <= RcvCap
      BY <2>1, TypedAt, BoundsAreNaturals
    <3>2. QED
      BY <1>12, <2>3, <3>1 DEF Typed, TypeOK, ClientRead, SockRead, TcpTypeOK
  <2>5. [i \in 1 .. BufSize |-> IF i <= n THEN rcvq[c][i] ELSE buf[c][i]]
            \in [1 .. BufSize -> Nat]
    BY <2>1, <2>2, TypedAt, BoundsAreNaturals, SMTT(40)
  <2>6. bufBegin[c] = 0 /\ bufEnd[c] = 0
    BY <2>1 DEF Typed, ReadIntoEmptyBuffer
  <2>7. TypeOK'
    BY <1>12, <2>1, <2>4, <2>5 DEF Typed, TypeOK, ClientRead
  <2>8. ReadIntoEmptyBuffer'
    BY <1>12, <2>1, <2>6, BoundsAreNaturals
       DEF Typed, TypeOK, ClientRead, ReadIntoEmptyBuffer
  <2>9. QED
    BY <2>7, <2>8 DEF Typed
<1>13. QED
  BY <1>1, <1>2, <1>3, <1>4, <1>5, <1>6, <1>7, <1>8, <1>9, <1>10, <1>11, <1>12
     DEF Server, Handler

\* A stutter.
LEMMA TypedStutter == Typed /\ UNCHANGED vars => Typed'
  BY DEF Typed, TypeOK, TcpTypeOK, ReadIntoEmptyBuffer, vars, tcpVars,
         epollVars, serverVars, loopVars, callVars, stateVars

\* The first part of the invariant.
LEMMA TypedAlways == Spec => []Typed
<1>1. Typed /\ [Next]_vars => Typed'
  BY TypedClient, TypedServer, TypedStutter DEF Next
<1>2. QED
  BY TypedInit, <1>1, PTL DEF Spec

\* The state keeps its types.
THEOREM TypeCorrect == Spec => []TypeOK
  BY TypedAlways, PTL DEF Typed

\* client_read always finds buf_begin = 0 with nothing left to write, and
\* buf_begin <= buf_end <= sizeof(buf) for every socket_state_t.
THEOREM BufferDiscipline == Spec => []ReadIntoEmptyBuffer
  BY TypedAlways, PTL DEF Typed

-----------------------------------------------------------------------------
(* Memory: which clients the server's pointers lead to.                    *)

Serving(c) == pc \in {"write", "read"} /\ c = cur

\* The server never holds two pointers to one client, has something to write
\* when it is about to write, and takes a client for hung up only after its
\* connection was reset.
Pointers ==
    /\ pc = "write" => bufEnd[cur] # 0
    /\ \A c \in batch : ~Serving(c)
    /\ pc # "exit" => rdy \cap Conns \subseteq Open
    /\ \A c \in batch \cap hup : rst[c]

Live == NoUseAfterFree /\ Pointers

\* The server begins with no client and no event.
LEMMA LiveInit == Init => Live
  BY DEF Init, TcpInit, Live, Pointers, Serving, NoUseAfterFree

\* A client frees nothing, and adds itself to epoll's list only while open.
LEMMA LiveClient ==
    ASSUME Typed, Live, NEW c \in Conns, Client(c)
    PROVE  Live'
<1> USE DEF serverVars, loopVars, callVars, stateVars, epollVars, Edge, Open
<1>1. /\ UNCHANGED serverVars
      /\ rdy' \subseteq rdy \cup Open \cup {Listener}
  BY DEF Client, ClientConnect, ClientSend, ClientFinish, ClientReset,
         ClientReceive
<1>2. /\ \A d \in Conns : rst[d] => rst'[d]
      /\ \A d \in Conns : conn[d] = "open" => conn'[d] = "open"
  BY DEF Client, ClientConnect, ClientSend, ClientFinish, ClientReset,
         ClientReceive, Connect, Send, Finish, Reset, Receive,
         Typed, TypeOK, TcpTypeOK
<1>3. Listener \notin Conns
  BY FastAssumption
<1>4. QED
  BY <1>1, <1>2, <1>3
     DEF Live, NoUseAfterFree, Pointers, Serving, Typed, TypeOK

\* Who frees a client holds the only pointer to it.
LEMMA LiveServer == Typed /\ Live /\ Server => Live'
<1> SUFFICES ASSUME Typed, Live, Server PROVE Live'
  OBVIOUS
<1> USE DEF serverVars, loopVars, callVars, stateVars, epollVars, tcpVars, Open
<1> USE DEF Live, NoUseAfterFree, Pointers, Serving
<1>0. Typed /\ TypeOK /\ TcpTypeOK
  BY DEF Typed, TypeOK
<1>1. CASE EpollWait
  BY <1>1 DEF EpollWait
<1>2. CASE HandleConnEvent
  BY <1>2 DEF HandleConnEvent
<1>3. CASE AcceptAgain
  BY <1>3 DEF AcceptAgain
<1>4. CASE AcceptError
  BY <1>4 DEF AcceptError, SockExit
<1>5. ASSUME NEW c \in Conns, HandleHangup(c) PROVE Live'
  BY <1>0, <1>5
     DEF HandleHangup, CloseConnection, SockClose, TypeOK, TcpTypeOK
<1>6. ASSUME NEW c \in Conns, HandleClientEvent(c) PROVE Live'
  BY <1>0, <1>6 DEF HandleClientEvent, Serve, TypeOK
<1>7. ASSUME NEW c \in Conns, Accept(c) PROVE Live'
  BY <1>0, <1>7 DEF Accept, Serve, Backlog, TypeOK, TcpTypeOK
<1>8. ASSUME NEW c \in Conns, WriteAgain(c) PROVE Live'
  BY <1>0, <1>8 DEF WriteAgain, TypeOK
<1>9. ASSUME NEW c \in Conns, ReadAgain(c) PROVE Live'
  BY <1>0, <1>9 DEF ReadAgain, TypeOK
<1>10. ASSUME NEW c \in Conns, Disconnect(c) PROVE Live'
  BY <1>0, <1>10
     DEF Disconnect, Ended, CloseConnection, SockClose, TypeOK, TcpTypeOK
<1>11. ASSUME NEW c \in Conns, NEW n \in 1 .. BufSize, ClientWrite(c, n)
       PROVE  Live'
  BY <1>0, <1>11 DEF ClientWrite, Taken, Drained, SockWrite, TypeOK
<1>12. ASSUME NEW c \in Conns, NEW n \in 1 .. BufSize, ClientRead(c, n)
       PROVE  Live'
  BY <1>0, <1>12 DEF ClientRead, SockRead, TypeOK
<1>13. QED
  BY <1>1, <1>2, <1>3, <1>4, <1>5, <1>6, <1>7, <1>8, <1>9, <1>10, <1>11, <1>12
     DEF Server, Handler

\* The second part of the invariant.
LEMMA LiveAlways == Spec => []Live
<1>1. Live /\ UNCHANGED vars => Live'
  BY DEF Live, NoUseAfterFree, Pointers, Serving, Open, vars, tcpVars,
         epollVars, serverVars, loopVars, callVars, stateVars
<1>2. Typed /\ Live /\ [Next]_vars => Live'
  BY <1>1, LiveClient, LiveServer DEF Next
<1>3. QED
  BY TypedAlways, LiveInit, <1>2, PTL DEF Spec

\* The socket_state_t of the running handler and those of the events still
\* to be handled are live, whatever connection is closed, by whom and when.
THEOREM MemorySafe == Spec => []NoUseAfterFree
  BY LiveAlways, PTL DEF Live

-----------------------------------------------------------------------------
(* Events: no client is forgotten.                                         *)

\* A handler that left bytes behind did so on a full send buffer, which is
\* remembered until there is space again.
Stalled ==
    \A c \in Open :
        bufEnd[c] # 0 /\ ~Serving(c) => nospace[c] \/ Writable(c)

Noticed == NoLostEdge /\ Stalled

\* At the beginning there is nothing to notice.
LEMMA NoticedInit == Init => Noticed
  BY DEF Init, TcpInit, Noticed, NoLostEdge, Stalled, Open, Backlog

\* What a client makes possible is an edge, so its entry is on the list.
LEMMA NoticedClient ==
    ASSUME Typed, Live, Noticed, NEW c \in Conns, Client(c)
    PROVE  Noticed'
<1> USE DEF Noticed, NoLostEdge, Stalled, Served, Serving, Open, Backlog,
            Readable, Writable, Edge,
            serverVars, loopVars, callVars, stateVars, epollVars
<1>0. Typed /\ TypeOK /\ TcpTypeOK /\ Listener \notin Conns
  BY FastAssumption DEF Typed, TypeOK
<1>1. CASE ClientConnect(c)
  BY <1>0, <1>1 DEF ClientConnect, Connect, TcpTypeOK
<1>2. CASE ClientSend(c)
  BY <1>0, <1>2 DEF ClientSend, Send, TcpTypeOK
<1>3. CASE ClientFinish(c)
  BY <1>0, <1>3 DEF ClientFinish, Finish, TcpTypeOK
<1>4. CASE ClientReset(c)
  BY <1>0, <1>4 DEF ClientReset, Reset, TcpTypeOK
<1>5. CASE ClientReceive(c)
  <2>1. sndq' = [sndq EXCEPT ![c] = Tail(sndq[c])]
        /\ UNCHANGED <<conn, sent, fin, rst, rcvq, serverVars>>
    BY <1>5 DEF ClientReceive, Receive
  <2>2. Len(Tail(sndq[c])) = Len(sndq[c]) - 1 /\ Len(sndq[c]) \in Nat
    BY <1>5, TypedAt, TakeByte DEF ClientReceive, Receive
  <2>3. SndLow \in Nat /\ sndq \in [Conns -> Seq(Nat)]
    BY <1>0, SocketAssumption DEF TcpTypeOK
  <2>4. \A d \in Conns : /\ Readable(d)' = Readable(d)
                         /\ Writable(d) => Writable(d)'
    BY <2>1, <2>2, <2>3
  <2>5. CASE nospace[c] /\ Len(sndq'[c]) <= SndLow
    <3>1. /\ nospace' = [nospace EXCEPT ![c] = FALSE]
          /\ rdy' = rdy \cup ({c} \cap (Open \cup {Listener}))
      BY <1>5, <2>5 DEF ClientReceive
    <3>2. Writable(c)'
      BY <2>5
    <3>3. QED
      BY <1>0, <2>1, <2>4, <3>1, <3>2 DEF TypeOK
  <2>6. CASE ~(nospace[c] /\ Len(sndq'[c]) <= SndLow)
    <3>1. UNCHANGED <<nospace, rdy>>
      BY <1>5, <2>6 DEF ClientReceive
    <3>2. nospace[c] => ~Writable(c)' \/ rst[c]
      BY <2>1, <2>6
    <3>3. QED
      BY <1>0, <2>1, <2>4, <3>1, <3>2 DEF TypeOK, TcpTypeOK
  <2>7. QED
    BY <2>5, <2>6
<1>6. QED
  BY <1>1, <1>2, <1>3, <1>4, <1>5 DEF Client

\* A handler stops at EAGAIN only, after which the next change is an edge.
LEMMA NoticedServer == Typed /\ Live /\ Noticed /\ Server => Noticed'
<1> SUFFICES ASSUME Typed, Live, Noticed, Server PROVE Noticed'
  OBVIOUS
<1> USE DEF Noticed, NoLostEdge, Stalled, Served, Serving, Open, Backlog,
            Readable, Writable,
            serverVars, loopVars, callVars, stateVars, epollVars, tcpVars
<1>0. Typed /\ TypeOK /\ TcpTypeOK /\ Listener \notin Conns
  BY FastAssumption DEF Typed, TypeOK
<1>1. CASE EpollWait
  BY <1>0, <1>1 DEF EpollWait, Ready
<1>2. CASE HandleConnEvent
  BY <1>0, <1>2 DEF HandleConnEvent
<1>3. CASE AcceptAgain
  BY <1>3 DEF AcceptAgain
<1>4. CASE AcceptError
  BY <1>0, <1>4 DEF AcceptError, SockExit, TcpTypeOK
<1>5. ASSUME NEW c \in Conns, HandleHangup(c) PROVE Noticed'
  BY <1>0, <1>5
     DEF HandleHangup, CloseConnection, SockClose, TypeOK, TcpTypeOK
<1>6. ASSUME NEW c \in Conns, HandleClientEvent(c) PROVE Noticed'
  BY <1>0, <1>6 DEF HandleClientEvent, Serve, TypeOK
<1>7. ASSUME NEW c \in Conns, Accept(c) PROVE Noticed'
  BY <1>0, <1>7 DEF Accept, Serve, TypeOK, TcpTypeOK
<1>8. ASSUME NEW c \in Conns, WriteAgain(c) PROVE Noticed'
  BY <1>0, <1>8, SocketAssumption DEF WriteAgain, Live, Pointers, TypeOK
<1>9. ASSUME NEW c \in Conns, ReadAgain(c) PROVE Noticed'
  BY <1>0, <1>9 DEF ReadAgain, Typed, ReadIntoEmptyBuffer, TypeOK, TcpTypeOK
<1>10. ASSUME NEW c \in Conns, Disconnect(c) PROVE Noticed'
  BY <1>0, <1>10
     DEF Disconnect, Ended, CloseConnection, SockClose, TypeOK, TcpTypeOK
<1>11. ASSUME NEW c \in Conns, NEW n \in 1 .. BufSize, ClientWrite(c, n)
       PROVE  Noticed'
  BY <1>0, <1>11, SMTT(40) DEF ClientWrite, Taken, Drained, SockWrite, TypeOK
<1>12. ASSUME NEW c \in Conns, NEW n \in 1 .. BufSize, ClientRead(c, n)
       PROVE  Noticed'
  BY <1>0, <1>12 DEF ClientRead, SockRead, TypeOK
<1>13. QED
  BY <1>1, <1>2, <1>3, <1>4, <1>5, <1>6, <1>7, <1>8, <1>9, <1>10, <1>11, <1>12
     DEF Server, Handler

\* The third part of the invariant.
LEMMA NoticedAlways == Spec => []Noticed
<1>1. Noticed /\ UNCHANGED vars => Noticed'
  BY DEF Noticed, NoLostEdge, Stalled, Served, Serving, Open, Backlog,
         Readable, Writable, vars, tcpVars,
         epollVars, serverVars, loopVars, callVars, stateVars
<1>2. Typed /\ Live /\ Noticed /\ [Next]_vars => Noticed'
  BY <1>1, NoticedClient, NoticedServer DEF Next
<1>3. QED
  BY TypedAlways, LiveAlways, NoticedInit, <1>2, PTL DEF Spec

\* A client with bytes to read, an end of stream, a reset or space for bytes
\* left over is always on epoll's list, among the events at hand or being
\* served: "handle until EAGAIN" never loses an edge.
THEOREM EveryEdgeKept == Spec => []NoLostEdge
  BY NoticedAlways, PTL DEF Noticed

-----------------------------------------------------------------------------
(* Streams: every byte comes back, once and in order.                      *)

\* A connection that is not open has nothing in a buffer of the server, but
\* when the server exited.
Emptied ==
    \A c \in Conns : conn[c] \notin {"open", "dead"} =>
        bufBegin[c] = 0 /\ bufEnd[c] = 0

Streams == StreamIntact /\ CleanClose /\ Emptied

\* An empty buffer contributes nothing.
LEMMA PendingEmpty ==
    ASSUME NEW c \in Conns, bufBegin[c] = 0, bufEnd[c] = 0
    PROVE  Pending(c) = <<>>
<1>1. SubSeq(buf[c], 0 + 1, 0) = <<>>
  BY SubSeqEmpty
<1>2. QED
  BY <1>1 DEF Pending

\* What the server holds of a client is a sequence within its buffer.
LEMMA PendingType ==
    ASSUME Typed, NEW c \in Conns
    PROVE  /\ buf[c] \in Seq(Nat) /\ Len(buf[c]) = BufSize
           /\ Pending(c) \in Seq(Nat)
<1>1. buf[c] \in Seq(Nat) /\ Len(buf[c]) = BufSize
  BY TypedAt, BoundsAreNaturals, ArrayIsSeq
<1>2. \A i \in bufBegin[c] + 1 .. bufEnd[c] : buf[c][i] \in Nat
  BY TypedAt, BoundsAreNaturals
<1>3. QED
  BY <1>1, <1>2, TypedAt, Slice DEF Pending

\* What a step needs to keep the streams when it opens and closes nothing.
LEMMA StreamsKept ==
    ASSUME Streams, UNCHANGED <<conn, sent, fin, rst>>,
           \A c \in Conns : Held(c)' = Held(c),
           \A c \in Conns : conn[c] # "open" =>
               /\ got'[c] \o sndq'[c] = got[c] \o sndq[c]
               /\ bufBegin'[c] = bufBegin[c] /\ bufEnd'[c] = bufEnd[c]
    PROVE  Streams'
<1>1. StreamIntact'
  BY DEF Streams, StreamIntact, First
<1>2. CleanClose'
  BY DEF Streams, CleanClose, First
<1>3. Emptied'
  BY DEF Streams, Emptied
<1>4. QED
  BY <1>1, <1>2, <1>3 DEF Streams

\* At the beginning nothing is sent and nothing is held.
LEMMA StreamsInit == Init => Streams
<1> SUFFICES ASSUME Init PROVE Streams
  OBVIOUS
<1>1. ASSUME NEW c \in Conns PROVE Held(c) = First(0)
  <2>1. bufBegin[c] = 0 /\ bufEnd[c] = 0
    BY DEF Init
  <2>2. Pending(c) = <<>> /\ got[c] = <<>> /\ sndq[c] = <<>> /\ rcvq[c] = <<>>
    BY <2>1, PendingEmpty DEF Init, TcpInit
  <2>3. <<>> \o <<>> = <<>>
    BY ConcatEmptySeq, EmptySeq
  <2>4. First(0) = <<>>
    BY DEF First
  <2>5. QED
    BY <2>2, <2>3, <2>4 DEF Held
<1>2. QED
  BY <1>1 DEF Init, TcpInit, Streams, StreamIntact, CleanClose, Emptied

\* A client's step moves bytes within its own stream.
LEMMA StreamsClient ==
    ASSUME Typed, Streams, NEW c \in Conns, Client(c)
    PROVE  Streams'
<1> USE DEF serverVars, stateVars
<1>0. TypeOK /\ TcpTypeOK
  BY DEF Typed, TypeOK
<1>1. \A d \in Conns : Pending(d)' = Pending(d)
  BY DEF Client, ClientConnect, ClientSend, ClientFinish, ClientReset,
         ClientReceive, Pending
<1>2. UNCHANGED <<bufBegin, bufEnd>>
  BY DEF Client, ClientConnect, ClientSend, ClientFinish, ClientReset,
         ClientReceive
<1>3. CASE ClientConnect(c)
  <2>1. \A d \in Conns : Held(d)' = Held(d)
    BY <1>1, <1>3 DEF ClientConnect, Connect, Held
  <2>2. QED
    BY <1>0, <1>2, <1>3, <2>1
       DEF ClientConnect, Connect, Streams, StreamIntact, CleanClose, Emptied,
           TcpTypeOK, First
<1>4. CASE ClientSend(c)
  <2>1. /\ rcvq' = [rcvq EXCEPT ![c] = Append(rcvq[c], sent[c] + 1)]
        /\ sent' = [sent EXCEPT ![c] = sent[c] + 1]
        /\ UNCHANGED <<conn, fin, rst, got, sndq>>
        /\ conn[c] \in {"backlog", "open"}
    BY <1>4 DEF ClientSend, Send
  <2>2. \A d \in Conns \ {c} : Held(d)' = Held(d) /\ sent'[d] = sent[d]
    BY <1>0, <1>1, <2>1 DEF Held, TcpTypeOK
  <2>3. Held(c)' = Append(Held(c), sent[c] + 1)
    <3>1. /\ got[c] \o sndq[c] \in Seq(Nat) /\ Pending(c) \in Seq(Nat)
          /\ rcvq[c] \in Seq(Nat) /\ sent[c] + 1 \in Nat
      BY TypedAt, ConcatLen, PendingType
    <3>2. got[c] \o sndq[c] \o Pending(c) \in Seq(Nat)
      BY <3>1, ConcatLen
    <3>3. Held(c)' = got[c] \o sndq[c] \o Pending(c)
                        \o Append(rcvq[c], sent[c] + 1)
      BY <1>0, <1>1, <2>1 DEF Held, TcpTypeOK
    <3>4. QED
      BY <3>1, <3>2, <3>3, AppendToLast DEF Held
  <2>4. First(sent[c] + 1) = Append(First(sent[c]), sent[c] + 1)
    BY TypedAt, NextNumber, BoundsAreNaturals DEF First
  <2>5. sent'[c] = sent[c] + 1
    BY <1>0, <2>1 DEF TcpTypeOK
  <2>6. StreamIntact'
    <3>1. ASSUME NEW d \in Conns, ~rst[d], conn[d] \notin {"aborted", "dead"}
          PROVE  Held(d)' = First(sent'[d])
      BY <2>2, <2>3, <2>4, <2>5, <3>1 DEF Streams, StreamIntact
    <3>2. QED
      BY <2>1, <3>1 DEF StreamIntact, First
  <2>7. CleanClose' /\ Emptied'
    BY <1>2, <2>1, <2>2 DEF Streams, CleanClose, Emptied, First
  <2>8. QED
    BY <2>6, <2>7 DEF Streams
<1>5. CASE ClientFinish(c)
  <2>1. \A d \in Conns : Held(d)' = Held(d)
    BY <1>1, <1>5 DEF ClientFinish, Finish, Held
  <2>2. QED
    BY <1>0, <1>2, <1>5, <2>1
       DEF ClientFinish, Finish, Streams, StreamIntact, CleanClose, Emptied,
           TcpTypeOK, First
<1>6. CASE ClientReset(c)
  <2>1. \A d \in Conns \ {c} : Held(d)' = Held(d)
    BY <1>0, <1>1, <1>6 DEF ClientReset, Reset, Held, TcpTypeOK
  <2>2. QED
    BY <1>0, <1>2, <1>6, <2>1
       DEF ClientReset, Reset, Streams, StreamIntact, CleanClose, Emptied,
           TcpTypeOK, First
<1>7. CASE ClientReceive(c)
  <2>1. /\ got' = [got EXCEPT ![c] = Append(got[c], Head(sndq[c]))]
        /\ sndq' = [sndq EXCEPT ![c] = Tail(sndq[c])]
        /\ sndq[c] # <<>>
        /\ UNCHANGED <<conn, sent, fin, rst, rcvq>>
    BY <1>7 DEF ClientReceive, Receive
  <2>2. Append(got[c], Head(sndq[c])) \o Tail(sndq[c]) = got[c] \o sndq[c]
    BY <2>1, TypedAt, MoveByte
  <2>3. \A d \in Conns : got'[d] \o sndq'[d] = got[d] \o sndq[d]
    BY <1>0, <2>1, <2>2 DEF TcpTypeOK
  <2>4. \A d \in Conns : Held(d)' = Held(d)
    BY <1>1, <2>1, <2>3 DEF Held
  <2>5. QED
    BY <1>2, <2>1, <2>3, <2>4, StreamsKept
<1>8. QED
  BY <1>3, <1>4, <1>5, <1>6, <1>7 DEF Client

\* The server closes a connection that was reset, or that it has drained.
LEMMA StreamsClose ==
    ASSUME Typed, Streams, NEW c \in Conns, CloseConnection(c),
           \/ rst[c]
           \/ fin[c] /\ rcvq[c] = <<>> /\ bufBegin[c] = 0 /\ bufEnd[c] = 0,
           conn[c] = "open"
    PROVE  Streams'
<1>0. TypeOK /\ TcpTypeOK
  BY DEF Typed, TypeOK
<1>1. /\ UNCHANGED <<sent, fin, rst, rcvq, got>>
      /\ conn'[c] \in {"closed", "aborted"}
      /\ bufBegin'[c] = 0 /\ bufEnd'[c] = 0
      /\ \A d \in Conns \ {c} :
           /\ conn'[d] = conn[d] /\ sndq'[d] = sndq[d] /\ buf'[d] = buf[d]
           /\ bufBegin'[d] = bufBegin[d] /\ bufEnd'[d] = bufEnd[d]
  BY <1>0 DEF CloseConnection, SockClose, TypeOK, TcpTypeOK
<1>2. \A d \in Conns \ {c} : Held(d)' = Held(d)
  BY <1>1 DEF Held, Pending
<1>3. ASSUME ~rst[c]
      PROVE  /\ conn'[c] = "closed" /\ fin[c] /\ sndq'[c] = sndq[c]
             /\ Held(c)' = Held(c) /\ Held(c) = got[c] \o sndq[c]
  <2>1. fin[c] /\ rcvq[c] = <<>> /\ bufBegin[c] = 0 /\ bufEnd[c] = 0
    BY <1>3
  <2>2. conn'[c] = "closed" /\ sndq'[c] = sndq[c]
    BY <1>0, <1>3, <2>1 DEF CloseConnection, SockClose, TcpTypeOK
  <2>3. Pending(c) = <<>> /\ Pending(c)' = <<>>
    <3>1. SubSeq(buf'[c], 0 + 1, 0) = <<>>
      BY SubSeqEmpty
    <3>2. QED
      BY <1>1, <2>1, <3>1, PendingEmpty DEF Pending
  <2>4. got[c] \o sndq[c] \in Seq(Nat)
    BY TypedAt, ConcatLen
  <2>5. got[c] \o sndq[c] \o <<>> \o <<>> = got[c] \o sndq[c]
    BY <2>4, ConcatEmptySeq
  <2>6. QED
    BY <1>1, <2>1, <2>2, <2>3, <2>5 DEF Held
<1>4. StreamIntact'
  BY <1>1, <1>2, <1>3 DEF Streams, StreamIntact, First
<1>5. CleanClose'
  BY <1>1, <1>3 DEF Streams, CleanClose, StreamIntact, First
<1>6. Emptied'
  BY <1>1 DEF Streams, Emptied
<1>7. QED
  BY <1>4, <1>5, <1>6 DEF Streams

\* client_write moves the first bytes held to the send queue.
LEMMA StreamsWrite ==
    ASSUME Typed, Live, Streams,
           NEW c \in Conns, NEW n \in 1 .. BufSize, ClientWrite(c, n)
    PROVE  Streams'
<1> DEFINE b == bufBegin[c]
           data == SubSeq(buf[c], b + 1, b + n)
<1>0. TypeOK /\ TcpTypeOK
  BY DEF Typed, TypeOK
<1>1. /\ n \in Nat /\ b + n <= bufEnd[c] /\ pc = "write" /\ c = cur
      /\ sndq' = [sndq EXCEPT ![c] = sndq[c] \o data]
      /\ UNCHANGED <<conn, sent, fin, rst, rcvq, got, buf>>
      /\ \A d \in Conns \ {c} :
           bufBegin'[d] = bufBegin[d] /\ bufEnd'[d] = bufEnd[d]
  BY <1>0, TypedAt DEF ClientWrite, Taken, Drained, SockWrite, TypeOK
<1>2. conn[c] = "open"
  BY <1>1 DEF Live, NoUseAfterFree
<1>3. Pending(c)' = SubSeq(buf[c], b + n + 1, bufEnd[c])
  <2>1. CASE b + n = bufEnd[c]
    <3>1. bufBegin'[c] = 0 /\ bufEnd'[c] = 0
      BY <1>0, <2>1 DEF ClientWrite, Taken, Drained, TypeOK
    <3>2. SubSeq(buf'[c], 0 + 1, 0) = <<>>
      BY SubSeqEmpty
    <3>3. SubSeq(buf[c], b + n + 1, bufEnd[c]) = <<>>
      BY <1>1, <2>1, TypedAt, SubSeqEmpty
    <3>4. QED
      BY <3>1, <3>2, <3>3 DEF Pending
  <2>2. CASE b + n # bufEnd[c]
    BY <1>0, <1>1, <2>2, SMTT(40)
    DEF ClientWrite, Taken, Drained, TypeOK, Pending
  <2>3. QED
    BY <2>1, <2>2
<1>4. Held(c)' = Held(c)
  <2>1. got[c] \in Seq(Nat) /\ sndq[c] \in Seq(Nat)
        /\ got[c] \o sndq[c] \in Seq(Nat)
    BY TypedAt, ConcatLen
  <2>2. /\ b \in Nat /\ n \in Nat /\ bufEnd[c] \in Nat /\ b + n <= bufEnd[c]
        /\ Len(buf[c]) \in Nat /\ bufEnd[c] <= Len(buf[c])
    BY <1>1, TypedAt, PendingType, BoundsAreNaturals, SMTT(40)
  <2>3. buf[c] \in Seq(Nat)
    BY TypedAt, PendingType
  <2>4. /\ data \in Seq(Nat)
        /\ ((got[c] \o sndq[c]) \o data)
                 \o SubSeq(buf[c], b + n + 1, bufEnd[c])
             = (got[c] \o sndq[c]) \o SubSeq(buf[c], b + 1, bufEnd[c])
    <3>1. PICK i \in Nat, m \in Nat, k \in Nat :
            i = b + 1 /\ m = b + n /\ k = b + n + 1
      BY <2>2, CutIndices
    <3>2. i <= m + 1 /\ 1 <= i /\ k = m + 1 /\ m <= bufEnd[c]
      BY <2>2, <3>1, SMTT(40)
    <3>3. PICK f \in Seq(Nat), e \in Nat, s \in Seq(Nat) :
            f = buf[c] /\ e = bufEnd[c] /\ s = got[c] \o sndq[c]
      BY <2>1, <2>2, <2>3
    <3>4. i <= m + 1 /\ 1 <= i /\ m <= e /\ e <= Len(f) /\ k = m + 1
      <4>1. e = bufEnd[c] /\ Len(f) = Len(buf[c])
        BY <3>3
      <4>2. QED
        BY <2>2, <3>2, <4>1
    <3>5. i \in 1 .. Len(f) + 1 /\ m \in i - 1 .. Len(f) /\ e \in m .. Len(f)
      BY <3>4, LenProperties
    <3>6. SubSeq(f, i, m) \o SubSeq(f, k, e) = SubSeq(f, i, e)
      BY <3>4, <3>5, ConcatAdjacentSubSeq
    <3>7. SubSeq(f, i, m) \in Seq(Nat) /\ SubSeq(f, k, e) \in Seq(Nat)
      <4>1. /\ i \in Int /\ m \in Int /\ k \in Int /\ e \in Int
            /\ \A x \in i .. m : f[x] \in Nat
            /\ \A x \in k .. e : f[x] \in Nat
        BY <3>4, <3>5, ElementOfSeq, LenProperties, SMTT(40)
      <4>2. QED
        BY <4>1, SubSeqProperties
    <3>8. (s \o SubSeq(f, i, m)) \o SubSeq(f, k, e)
            = s \o (SubSeq(f, i, m) \o SubSeq(f, k, e))
      BY <3>7, Regroup, ZenonT(40)
    <3>9. QED
      BY <3>1, <3>3, <3>6, <3>7, <3>8
  <2>5. Held(c)' = got[c] \o (sndq[c] \o data)
                      \o SubSeq(buf[c], b + n + 1, bufEnd[c]) \o rcvq[c]
    BY <1>0, <1>1, <1>3 DEF Held, TcpTypeOK
  <2>6. got[c] \o (sndq[c] \o data) = (got[c] \o sndq[c]) \o data
    BY <2>1, <2>4, Regroup, ZenonT(40)
  <2>7. QED
    BY <2>4, <2>5, <2>6 DEF Held, Pending
<1>5. \A d \in Conns : Held(d)' = Held(d)
  BY <1>0, <1>1, <1>4, Zenon DEF Held, Pending, TcpTypeOK
<1>6. QED
  BY <1>0, <1>1, <1>2, <1>5, StreamsKept DEF TcpTypeOK

\* client_read moves the first unread bytes to the empty buffer.
LEMMA StreamsRead ==
    ASSUME Typed, Live, Streams,
           NEW c \in Conns, NEW n \in 1 .. BufSize, ClientRead(c, n)
    PROVE  Streams'
<1> DEFINE taken == SubSeq(rcvq[c], 1, n)
           rest == SubSeq(rcvq[c], n + 1, Len(rcvq[c]))
<1>0. TypeOK /\ TcpTypeOK
  BY DEF Typed, TypeOK
<1>1. /\ n \in 1 .. Len(rcvq[c]) /\ pc = "read" /\ c = cur
      /\ rcvq' = [rcvq EXCEPT ![c] = rest]
      /\ UNCHANGED <<conn, sent, fin, rst, sndq, got, bufBegin>>
      /\ \A d \in Conns \ {c} : buf'[d] = buf[d] /\ bufEnd'[d] = bufEnd[d]
  BY <1>0, TypedAt DEF ClientRead, SockRead, TypeOK
<1>2. conn[c] = "open"
  BY <1>1 DEF Live, NoUseAfterFree
<1>3. bufBegin[c] = 0 /\ bufEnd[c] = 0
  BY <1>1 DEF Typed, ReadIntoEmptyBuffer
<1>4. bufEnd'[c] = n /\ bufBegin'[c] = 0
  BY <1>0, <1>1, <1>3 DEF ClientRead, TypeOK
<1>5. Pending(c)' = taken
  <2>1. \A i \in 1 .. n : buf'[c][i] = rcvq[c][i]
    <3>1. buf'[c] =
            [i \in 1 .. BufSize |-> IF i <= n THEN rcvq[c][i] ELSE buf[c][i]]
      BY <1>0 DEF ClientRead, TypeOK
    <3>2. \A i \in 1 .. n : i \in 1 .. BufSize /\ i <= n
      BY BoundsAreNaturals
    <3>3. QED
      BY <3>1, <3>2
  <2>2. \A i \in 1 .. Len(rcvq[c]) : rcvq[c][i] \in Nat
    BY TypedAt, ElementOfSeq
  <2>3. \A i \in 0 + 1 .. n : rcvq[c][i] \in Nat /\ buf'[c][i] \in Nat
    <3>1. \A i \in 0 + 1 .. n : i \in 1 .. n /\ i \in 1 .. Len(rcvq[c])
      BY <1>1, TypedAt, Within
    <3>2. QED
      BY <2>1, <2>2, <3>1
  <2>4. /\ SubSeq(buf'[c], 0 + 1, n) \in Seq(Nat)
        /\ Len(SubSeq(buf'[c], 0 + 1, n)) = n - 0
        /\ \A i \in 1 .. n - 0 : SubSeq(buf'[c], 0 + 1, n)[i] = buf'[c][0 + i]
    BY <2>3, Slice
  <2>5. /\ SubSeq(rcvq[c], 0 + 1, n) \in Seq(Nat)
        /\ Len(SubSeq(rcvq[c], 0 + 1, n)) = n - 0
        /\ \A i \in 1 .. n - 0 : SubSeq(rcvq[c], 0 + 1, n)[i] = rcvq[c][0 + i]
    BY <2>3, Slice
  <2>6. \A i \in 1 .. n :
          SubSeq(buf'[c], 0 + 1, n)[i] = SubSeq(rcvq[c], 0 + 1, n)[i]
    BY <2>1, <2>4, <2>5
  <2>7. SubSeq(buf'[c], 0 + 1, n) = SubSeq(rcvq[c], 0 + 1, n)
    BY <2>4, <2>5, <2>6, SeqEqual
  <2>8. QED
    BY <1>4, <2>7 DEF Pending
<1>6. Held(c)' = Held(c)
  <2>1. /\ taken \in Seq(Nat) /\ rest \in Seq(Nat)
        /\ taken \o rest = rcvq[c] /\ got[c] \o sndq[c] \in Seq(Nat)
    BY <1>1, TypedAt, CutQueue, ConcatLen
  <2>2. ((got[c] \o sndq[c]) \o taken) \o rest
          = (got[c] \o sndq[c]) \o (taken \o rest)
    BY <2>1, Regroup, ZenonT(40)
  <2>3. Held(c)' = ((got[c] \o sndq[c]) \o taken) \o rest
    BY <1>0, <1>1, <1>5 DEF Held, TcpTypeOK
  <2>4. Held(c) = (got[c] \o sndq[c]) \o rcvq[c]
    BY <1>3, <2>1, PendingEmpty, ConcatEmptySeq DEF Held
  <2>5. QED
    BY <2>1, <2>2, <2>3, <2>4
<1>7. \A d \in Conns : Held(d)' = Held(d)
  BY <1>0, <1>1, <1>6 DEF Held, Pending, TcpTypeOK
<1>8. QED
  BY <1>0, <1>1, <1>2, <1>7, StreamsKept DEF TcpTypeOK

\* Every step of the server.
LEMMA StreamsServer == Typed /\ Live /\ Streams /\ Server => Streams'
<1> SUFFICES ASSUME Typed, Live, Streams, Server PROVE Streams'
  OBVIOUS
<1> USE DEF stateVars, tcpVars
<1>0. TypeOK /\ TcpTypeOK
  BY DEF Typed, TypeOK
<1>1. ASSUME UNCHANGED <<tcpVars, stateVars>> PROVE Streams'
  BY <1>1 DEF Streams, StreamIntact, CleanClose, Emptied, Held, Pending, First
<1>2. CASE EpollWait \/ HandleConnEvent \/ AcceptAgain
  BY <1>1, <1>2 DEF EpollWait, HandleConnEvent, AcceptAgain
<1>3. CASE AcceptError
  BY <1>0, <1>3
     DEF AcceptError, SockExit, Streams, StreamIntact, CleanClose, Emptied,
         Held, Pending, First, TcpTypeOK
<1>4. ASSUME NEW c \in Conns, HandleHangup(c) PROVE Streams'
  <2>1. conn[c] = "open" /\ rst[c] /\ CloseConnection(c)
    BY <1>4 DEF HandleHangup, Live, NoUseAfterFree, Pointers, Open
  <2>2. QED
    BY <2>1, StreamsClose
<1>5. ASSUME NEW c \in Conns,
             HandleClientEvent(c) \/ WriteAgain(c) \/ ReadAgain(c)
      PROVE  Streams'
  BY <1>1, <1>5 DEF HandleClientEvent, WriteAgain, ReadAgain
<1>6. ASSUME NEW c \in Conns, Accept(c) PROVE Streams'
  <2>1. conn[c] = "backlog" /\ conn' = [conn EXCEPT ![c] = "open"]
        /\ UNCHANGED <<sent, fin, rst, rcvq, sndq, got, buf>>
    BY <1>6 DEF Accept, Backlog
  <2>2. bufBegin' = bufBegin /\ bufEnd' = bufEnd
    <3>1. bufBegin[c] = 0 /\ bufEnd[c] = 0
      BY <2>1 DEF Streams, Emptied
    <3>2. QED
      BY <1>0, <1>6, <3>1 DEF Accept, TypeOK
  <2>3. \A d \in Conns : Held(d)' = Held(d)
    BY <2>1, <2>2 DEF Held, Pending
  <2>4. QED
    BY <1>0, <2>1, <2>2, <2>3
       DEF Streams, StreamIntact, CleanClose, Emptied, First, TcpTypeOK
<1>7. ASSUME NEW c \in Conns, Disconnect(c) PROVE Streams'
  <2>1. pc \in {"write", "read"} /\ c = cur /\ CloseConnection(c)
    BY <1>7 DEF Disconnect, Ended
  <2>2. conn[c] = "open"
    BY <2>1 DEF Live, NoUseAfterFree
  <2>3. \/ rst[c]
        \/ fin[c] /\ rcvq[c] = <<>> /\ bufBegin[c] = 0 /\ bufEnd[c] = 0
    BY <1>7 DEF Disconnect, Ended, Typed, ReadIntoEmptyBuffer
  <2>4. QED
    BY <2>1, <2>2, <2>3, StreamsClose
<1>8. QED
  BY <1>2, <1>3, <1>4, <1>5, <1>6, <1>7, StreamsWrite, StreamsRead
     DEF Server, Handler

\* The last part of the invariant.
LEMMA StreamsAlways == Spec => []Streams
<1>1. Streams /\ UNCHANGED vars => Streams'
  BY DEF Streams, StreamIntact, CleanClose, Emptied, Held, Pending, First,
         vars, tcpVars, serverVars, stateVars
<1>2. Typed /\ Live /\ Streams /\ [Next]_vars => Streams'
  BY <1>1, StreamsClient, StreamsServer DEF Next
<1>3. QED
  BY TypedAlways, LiveAlways, StreamsInit, <1>2, PTL DEF Spec

\* Through every partial read and write, the bytes a client sent are what it
\* has, what is under way, what socket_state_t holds and what is unread.
THEOREM StreamsIntact == Spec => []StreamIntact
  BY StreamsAlways, PTL DEF Streams

\* close_connection on an unbroken connection loses nothing.
THEOREM ClosesCleanly == Spec => []CleanClose
  BY StreamsAlways, PTL DEF Streams

-----------------------------------------------------------------------------
(* The service: every step of the server and of its clients is one of the  *)
(* abstract service or invisible to it.                                    *)

\* No step finishes or resets a connection that is not made.
LEMMA UntouchedStep ==
    Typed /\ Live /\ Untouched /\ [Next]_vars => Untouched'
<1> SUFFICES ASSUME Typed, Live, Untouched, [Next]_vars PROVE Untouched'
  OBVIOUS
<1>0. TcpTypeOK
  BY DEF Typed, TypeOK
<1>1. ASSUME NEW c \in Conns, Client(c) PROVE Untouched'
  BY <1>0, <1>1
     DEF Untouched, TcpTypeOK, Client, ClientConnect, Connect, ClientSend,
         Send, ClientFinish, Finish, ClientReset, Reset, ClientReceive,
         Receive
<1>2. CASE Server
  <2>1. \A c \in Conns : conn'[c] = "new" => conn[c] = "new"
    BY <1>0, <1>2
       DEF TcpTypeOK, Server, EpollWait, HandleConnEvent, AcceptAgain,
           AcceptError, SockExit, Handler, HandleHangup, HandleClientEvent,
           Accept, WriteAgain, ReadAgain, Disconnect, CloseConnection,
           SockClose, ClientWrite, Taken, SockWrite, ClientRead, SockRead,
           tcpVars
  <2>2. UNCHANGED <<fin, rst>>
    BY <1>2
       DEF Server, EpollWait, HandleConnEvent, AcceptAgain,
           AcceptError, SockExit, Handler, HandleHangup, HandleClientEvent,
           Accept, WriteAgain, ReadAgain, Disconnect, CloseConnection,
           SockClose, ClientWrite, Taken, SockWrite, ClientRead, SockRead,
           tcpVars
  <2>3. QED
    BY <2>1, <2>2 DEF Untouched
<1>3. CASE UNCHANGED vars
  BY <1>3 DEF Untouched, vars, tcpVars
<1>4. QED
  BY <1>1, <1>2, <1>3 DEF Next

\* And so no connection is ever finished or reset before it is made.
LEMMA UntouchedAlways == Spec => []Untouched
<1>1. Init => Untouched
  BY DEF Init, TcpInit, Untouched
<1>2. QED
  BY TypedAlways, LiveAlways, <1>1, UntouchedStep, PTL DEF Spec

\* A step of a client is a step of the service.
LEMMA EchoClient ==
    ASSUME Typed, Untouched, NEW c \in Conns, Client(c)
    PROVE  EchoStep
<1>1. TcpTypeOK
  BY DEF Typed, TypeOK
<1>2. Connect(c) \/ Send(c) \/ Finish(c) \/ Reset(c) \/ Receive(c)
  BY DEF Client, ClientConnect, ClientSend, ClientFinish, ClientReset,
         ClientReceive
<1>3. QED
  BY <1>1, <1>2, ConnectBegins, SendSends, FinishFinishes, ResetBreaks,
     ReceiveDelivers

\* What the server holds is made of bytes.
HoldsBytes == \A c \in Conns : Pending(c) \in Seq(Nat)

\* What the server holds is always bytes, in this state and the next.
LEMMA HoldsBytesAlways == Spec => []HoldsBytes
<1>1. Typed => HoldsBytes
  BY PendingType DEF HoldsBytes
<1>2. QED
  BY TypedAlways, <1>1, PTL

\* client_write is the service's Echo, or what a reset makes of it.
LEMMA EchoWrite ==
    ASSUME Typed, Live, Streams, Typed', Streams', HoldsBytes',
           NEW c \in Conns, NEW n \in 1 .. BufSize, ClientWrite(c, n)
    PROVE  EchoStep
<1> DEFINE data == SubSeq(buf[c], bufBegin[c] + 1, bufBegin[c] + n)
<1>1. /\ TcpTypeOK /\ ~rst[c] /\ conn[c] = "open" /\ SockWrite(c, data)
      /\ bufBegin[c] \in Nat /\ bufEnd[c] \in Nat /\ n \in Nat \ {0}
      /\ bufBegin[c] + n <= bufEnd[c]
  BY TypedAt, SMTT(40)
     DEF ClientWrite, Taken, Typed, TypeOK, Live, NoUseAfterFree
<1>2. data \in Seq(Nat) /\ data # <<>>
  <2>1. bufBegin[c] + n \in Nat /\ bufBegin[c] <= bufBegin[c] + n
    BY <1>1
  <2>2. \A i \in bufBegin[c] + 1 .. bufBegin[c] + n : buf[c][i] \in Nat
    BY <1>1, TypedAt, BoundsAreNaturals
  <2>3. data \in Seq(Nat) /\ Len(data) = bufBegin[c] + n - bufBegin[c]
    BY <1>1, <2>1, <2>2, Slice
  <2>4. Len(data) # 0
    BY <1>1, <2>3
  <2>5. QED
    BY <2>3, <2>4, EmptySeq
<1>3. /\ got'[c] \in Seq(Nat) /\ sndq'[c] \in Seq(Nat)
      /\ Pending(c)' \in Seq(Nat) /\ rcvq'[c] \in Seq(Nat)
  <2>1. Pending(c)' \in Seq(Nat)
    BY DEF HoldsBytes
  <2>2. QED
    BY <2>1 DEF Typed, TypeOK, TcpTypeOK
<1>4. /\ UNCHANGED <<conn, sent, rst, got>>
      /\ got'[c] \o sndq'[c] \o Pending(c)' \o rcvq'[c] = First(sent[c])
  <2>1. UNCHANGED <<conn, sent, rst, got>>
    BY <1>1 DEF SockWrite
  <2>2. Held(c)' = First(sent[c])
    BY <1>1, <2>1 DEF Streams, StreamIntact, First
  <2>3. QED
    BY <2>1, <2>2 DEF Held
<1>5. PICK p \in Seq(Nat), q \in Seq(Nat), r \in Seq(Nat) :
        p = got'[c] \o sndq'[c] /\ q = Pending(c)' /\ r = rcvq'[c]
  BY <1>3, ConcatLen
<1>6. q \o r \in Seq(Nat) /\ p \o (q \o r) = First(sent[c])
  <2>1. p \o q \o r = First(sent[c])
    BY <1>4, <1>5
  <2>2. QED
    BY <2>1, Regroup, ConcatLen, ZenonT(60)
<1>7. got[c] \o sndq'[c] \o (q \o r) = First(sent[c])
  BY <1>4, <1>5, <1>6
<1>8. QED
  BY <1>1, <1>2, <1>6, <1>7, WriteEchoes

\* Every other step of the server leaves the service alone, or closes.
LEMMA EchoServer ==
    ASSUME Typed, Live, Streams, Typed', Streams', HoldsBytes', Server
    PROVE  EchoStep
<1>1. TcpTypeOK
  BY DEF Typed, TypeOK
<1>2. CASE EpollWait \/ HandleConnEvent \/ AcceptAgain
  BY <1>2, QuietRead DEF EpollWait, HandleConnEvent, AcceptAgain, tcpVars
<1>3. CASE AcceptError
  BY <1>1, <1>3, ExitBreaks DEF AcceptError
<1>4. ASSUME NEW c \in Conns, HandleHangup(c) PROVE EchoStep
  <2>1. conn[c] = "open" /\ rst[c] /\ SockClose(c)
    BY <1>4
       DEF HandleHangup, Live, NoUseAfterFree, Pointers, Open,
           CloseConnection
  <2>2. QED
    BY <1>1, <2>1, CloseCloses DEF Streams
<1>5. ASSUME NEW c \in Conns,
             HandleClientEvent(c) \/ WriteAgain(c) \/ ReadAgain(c)
      PROVE  EchoStep
  BY <1>5, QuietRead DEF HandleClientEvent, WriteAgain, ReadAgain, tcpVars
<1>6. ASSUME NEW c \in Conns, Accept(c) PROVE EchoStep
  BY <1>1, <1>6, QuietAccept DEF Accept, Backlog
<1>7. ASSUME NEW c \in Conns, Disconnect(c) PROVE EchoStep
  <2>1. conn[c] = "open" /\ SockClose(c) /\ (~rst[c] => rcvq[c] = <<>>)
    BY <1>7
       DEF Disconnect, Ended, CloseConnection, Live, NoUseAfterFree
  <2>2. QED
    BY <1>1, <2>1, CloseCloses DEF Streams
<1>8. ASSUME NEW c \in Conns, NEW n \in 1 .. BufSize, ClientRead(c, n)
      PROVE  EchoStep
  BY <1>8, QuietRead DEF ClientRead, SockRead
<1>9. QED
  BY <1>2, <1>3, <1>4, <1>5, <1>6, <1>7, <1>8, EchoWrite
     DEF Server, Handler

\* Through partial reads and writes, readiness that is reported once, resets
\* and the server's end, what clients see is the abstract echo service.
THEOREM Implements == Spec => ImplementsEchoService
<1>1. Init => Service!Init
  BY EchoInit DEF Init
<1>2. Typed /\ Live /\ Streams /\ Untouched /\ Typed' /\ Streams'
        /\ HoldsBytes' /\ [Next]_vars => [Service!Next]_(Service!vars)
  <2> SUFFICES ASSUME Typed, Live, Streams, Untouched, Typed', Streams',
                      HoldsBytes', [Next]_vars
               PROVE  EchoStep
    BY DEF EchoStep
  <2>1. CASE UNCHANGED vars
    BY <2>1, QuietRead DEF vars, tcpVars
  <2>2. QED
    BY <2>1, EchoClient, EchoServer DEF Next
<1>3. QED
  BY TypedAlways, LiveAlways, StreamsAlways, UntouchedAlways,
     HoldsBytesAlways, <1>1, <1>2, PTL
     DEF Spec, ImplementsEchoService, Service!Spec

\* What a client of the edge-triggered server may rely on at any time, also in
\* the middle of a partial write or after a reset.
THEOREM PromiseKept == Spec => []EchoPromised
  BY Implements, ServiceKeeps, PTL
-----------------------------------------------------------------------------
(* What the server leaves behind when it waits                             *)

\* epoll_wait blocks: nothing on the ready list is ready.
Waiting == pc = "loop" /\ batch = {} /\ \A i \in rdy : ~Ready(i)

\* A server that waits has accepted every connection; and a client that has
\* taken what was written to it is neither gone nor at its end, and has back
\* every byte it sent.
NothingForgotten ==
    Waiting =>
        /\ Backlog = {}
        /\ \A c \in Open : sndq[c] = <<>> =>
              ~rst[c] /\ ~fin[c] /\ got[c] = First(sent[c])

\* Nobody waits for the server while it waits: no edge was lost and no byte.
LEMMA WaitingIsDone ==
    ASSUME Typed, NoLostEdge, StreamIntact
    PROVE  NothingForgotten
<1> SUFFICES ASSUME Waiting
             PROVE  /\ Backlog = {}
                    /\ \A c \in Open : sndq[c] = <<>> =>
                          ~rst[c] /\ ~fin[c] /\ got[c] = First(sent[c])
  BY DEF NothingForgotten
<1>1. Backlog = {}
  <2>1. Listener \in rdy => Backlog = {}
    BY DEF Waiting, Ready
  <2> QED
    BY <2>1 DEF NoLostEdge, Waiting
<1>2. ASSUME NEW c \in Open, sndq[c] = <<>>
      PROVE  ~rst[c] /\ ~fin[c] /\ got[c] = First(sent[c])
  <2>1. c \in Conns /\ conn[c] = "open" /\ c # Listener
    BY FastAssumption DEF Open
  <2>2. Writable(c)
    <3>1. Len(sndq[c]) = 0 /\ 0 <= SndLow
      BY <1>2, SocketAssumption
    <3> QED
      BY <3>1 DEF Writable
  <2>3. c \notin rdy
    BY <2>1, <2>2 DEF Waiting, Ready
  <2>4. ~Served(c)
    BY <2>3 DEF Served, Waiting
  <2>5. rst[c] = FALSE /\ bufEnd[c] = 0 /\ ~Readable(c)
    BY <2>2, <2>4 DEF NoLostEdge
  <2>6. rcvq[c] = <<>> /\ ~fin[c]
    BY <2>5 DEF Readable
  <2>7. Pending(c) = <<>>
    <3>1. bufBegin[c] = 0
      BY <2>1, <2>5, TypedAt
    <3> QED
      BY <2>1, <2>5, <3>1, PendingEmpty
  <2>8. Held(c) = First(sent[c])
    BY <2>1, <2>5 DEF StreamIntact
  <2>9. got[c] \in Seq(Nat)
    BY <2>1, TypedAt
  <2>10. Held(c) = got[c]
    BY <1>2, <2>6, <2>7, <2>9, ConcatEmptySeq DEF Held
  <2> QED
    BY <2>5, <2>6, <2>8, <2>10
<1> QED
  BY <1>1, <1>2

\* An edge-triggered server that waits for what is already there waits for
\* ever: this one never does, however reads, writes and edges interleave.
THEOREM ForgetsNothing == Spec => []NothingForgotten
  BY TypedAlways, EveryEdgeKept, StreamsIntact, WaitingIsDone, PTL
=============================================================================
