--------------------- MODULE EpollServerStatefulProofs ---------------------
(***************************************************************************)
(* No blocking call of the stateful server blocks, and clients see an echo *)
(* service, for any number of connections, any streams and any buffer that *)
(* fits into what epoll calls writable.                                    *)
(***************************************************************************)
EXTENDS EpollServerStateful, EchoLemmas

\* No byte is lost on its way through client_state_t, which is empty until
\* its connection is accepted.
Streams ==
    /\ Untouched
    /\ CleanClose
    /\ \A c \in Conns : Intact(c, held[c])
    /\ \A c \in Conns : conn[c] \in {"new", "backlog"} => held[c] = <<>>

Inv == EventsStillTrue /\ Streams

\* epoll_wait reports the listening socket while somebody waits.
LEMMA ReportedListener ==
    /\ Backlog = {} => Reported(Listener) = {}
    /\ Backlog # {} => Reported(Listener) = {"in"}
  BY DEF Reported

\* What epoll_wait reports of a client is what is so at that time.
LEMMA ReportedConn ==
    ASSUME NEW c \in Conns
    PROVE  /\ Reported(c) \subseteq {"in", "out", "hup"}
           /\ "in" \in Reported(c) <=> Readable(c)
           /\ "out" \in Reported(c) <=> Writable(c)
           /\ "hup" \in Reported(c) <=> rst[c]
  BY StatefulAssumption DEF Reported

\* It reports nothing else.
LEMMA ReportedBits ==
    ASSUME NEW i \in Items
    PROVE  Reported(i) \subseteq {"in", "out", "hup"}
  BY ReportedConn, ReportedListener DEF Items

\* What epoll_wait reports of a connection stays true while its client may
\* act but the server does not.
LEMMA ReportedStays ==
    ASSUME NEW c \in Conns,
           Readable(c) => Readable(c)',
           Writable(c) => Writable(c)',
           rst[c] => rst'[c]
    PROVE  Reported(c) \subseteq Reported(c)'
<1>1. /\ Reported(c) \subseteq {"in", "out", "hup"}
      /\ "in" \in Reported(c) => Readable(c)
      /\ "out" \in Reported(c) => Writable(c)
      /\ "hup" \in Reported(c) => rst[c]
  BY ReportedConn
<1>2. /\ Readable(c)' => "in" \in Reported(c)'
      /\ Writable(c)' => "out" \in Reported(c)'
      /\ rst'[c] => "hup" \in Reported(c)'
  BY StatefulAssumption DEF Reported
<1> QED
  BY <1>1, <1>2

\* What a step needs to keep the events that are left.
LEMMA EventsKept ==
    ASSUME EventsStillTrue, TypeOK', up' = up,
           DOMAIN events' \subseteq DOMAIN events,
           \A i \in DOMAIN events' : events'[i] = events[i],
           Listener \in DOMAIN events' /\ Backlog # {} => Backlog' # {},
           \A c \in Conns : c \in DOMAIN events' =>
               /\ conn[c] = "open" => conn'[c] = "open"
               /\ Readable(c) => Readable(c)'
               /\ Writable(c) => Writable(c)'
               /\ rst[c] => rst'[c]
    PROVE  EventsStillTrue'
<1> SUFFICES ASSUME up, NEW i \in DOMAIN events'
             PROVE  /\ i \in Open' \cup {Listener}
                    /\ events'[i] \subseteq Reported(i)'
  BY DEF EventsStillTrue
<1>1. /\ i \in Open \cup {Listener} /\ events'[i] \subseteq Reported(i)
      /\ i \in Items
  BY DEF EventsStillTrue, TypeOK
<1>2. CASE i \in Conns
  <2>1. i \in Open'
    BY <1>1, <1>2, StatefulAssumption DEF Open
  <2>2. Reported(i) \subseteq Reported(i)'
    BY <1>2, ReportedStays
  <2> QED
    BY <1>1, <2>1, <2>2
<1>3. CASE i = Listener
  <2>1. Reported(Listener) = {} \/ Backlog # {}
    BY ReportedListener
  <2>2. Backlog' # {} => Reported(Listener)' = {"in"}
    BY DEF Reported
  <2>3. Reported(Listener) \subseteq {"in"}
    BY ReportedListener
  <2> QED
    BY <1>1, <1>3, <2>1, <2>2, <2>3
<1> QED
  BY <1>1, <1>2, <1>3 DEF Items

\* The server begins with no report and no bytes in hand.
LEMMA InvInit == Init => Inv
<1> SUFFICES ASSUME Init PROVE Inv
  OBVIOUS
<1>1. TcpTypeOK /\ Untouched /\ CleanClose /\ \A c \in Conns : Intact(c, <<>>)
  BY IntactInit DEF Init
<1>2. <<>> \in Seq(Nat) /\ Len(<<>>) <= BufSize
  BY StatefulAssumption, EmptySeq
<1>3. DOMAIN events = {}
  BY DEF Init, Nothing
<1>4. EventsStillTrue
  BY <1>1, <1>2, <1>3 DEF Init, EventsStillTrue, TypeOK
<1>5. Streams
  BY <1>1 DEF Init, Streams
<1> QED
  BY <1>4, <1>5 DEF Inv

-----------------------------------------------------------------------------
(* The clients                                                             *)

\* What was reported of a client stays true through any client's step.
LEMMA StepClient ==
    ASSUME Inv, NEW c \in Conns, Client(c)
    PROVE  Inv' /\ EchoStep
<1>1. ClientStep(c) /\ UNCHANGED serverVars
  BY DEF Client, ClientConnect, ClientSend, ClientFinish, ClientReset,
         ClientReceive, ClientStep
<1>2. TcpTypeOK /\ Untouched /\ CleanClose
  BY DEF Inv, EventsStillTrue, TypeOK, Streams
<1>3. TypeOK'
  <2>1. TcpTypeOK'
    BY <1>1, <1>2, ClientTyped
  <2> QED
    BY <1>1, <2>1 DEF Inv, EventsStillTrue, TypeOK, serverVars
<1>4. EventsStillTrue'
  <2>1. \A d \in Conns : /\ conn[d] = "open" => conn'[d] = "open"
                         /\ conn[d] = "backlog" => conn'[d] = "backlog"
                         /\ rst[d] => rst'[d]
                         /\ fin[d] => fin'[d]
    BY <1>1, <1>2
       DEF ClientStep, Connect, Send, Finish, Reset, Receive, TcpTypeOK
  <2>2. ASSUME NEW d \in Conns PROVE rcvq[d] # <<>> => rcvq'[d] # <<>>
    <3>1. CASE Send(c)
      <4>1. Append(rcvq[c], sent[c] + 1) # <<>>
        <5>1. sent[c] + 1 \in Nat /\ rcvq[c] \in Seq(Nat)
          BY <1>2, ConnType
        <5>2. /\ Append(rcvq[c], sent[c] + 1) \in Seq(Nat)
              /\ Len(Append(rcvq[c], sent[c] + 1)) = Len(rcvq[c]) + 1
          BY <5>1, AppendByte
        <5>3. Len(rcvq[c]) + 1 # 0
          BY <1>2, ConnType
        <5> QED
          BY <5>2, <5>3, EmptySeq
      <4> QED
        BY <1>2, <3>1, <4>1 DEF Send, TcpTypeOK
    <3> QED
      BY <1>1, <3>1 DEF ClientStep, Connect, Finish, Reset, Receive
  <2>3. ASSUME NEW d \in Conns PROVE Writable(d) => Writable(d)'
    <3>1. CASE Reset(c)
      BY <1>2, <3>1 DEF Reset, TcpTypeOK, Writable
    <3>2. CASE Receive(c)
      <4>1. /\ sndq'[c] = Tail(sndq[c]) /\ sndq[c] # <<>> /\ UNCHANGED rst
            /\ d # c => sndq'[d] = sndq[d]
        BY <1>2, <3>2 DEF Receive, TcpTypeOK
      <4>2. Len(Tail(sndq[c])) = Len(sndq[c]) - 1 /\ Len(sndq[c]) \in Nat
        BY <1>2, <4>1, ConnType, TakeByte
      <4>3. SndLow \in Nat
        BY SocketAssumption
      <4>4. Len(sndq[c]) <= SndLow => Len(Tail(sndq[c])) <= SndLow
        BY <4>2, <4>3
      <4>5. Writable(c) => Writable(c)'
        BY <4>1, <4>4 DEF Writable
      <4> QED
        BY <4>1, <4>5 DEF Writable
    <3> QED
      BY <1>1, <3>1, <3>2 DEF ClientStep, Connect, Send, Finish, Writable
  <2>4. \A d \in Conns : Readable(d) => Readable(d)'
    BY <2>1, <2>2 DEF Readable
  <2>5. Backlog # {} => Backlog' # {}
    BY <2>1 DEF Backlog
  <2>6. UNCHANGED <<up, events>> /\ EventsStillTrue
    BY <1>1 DEF serverVars, Inv
  <2> QED
    BY <1>3, <2>1, <2>3, <2>4, <2>5, <2>6, EventsKept
<1>5. Streams'
  <2>1. ASSUME NEW d \in Conns PROVE Intact(d, held[d])'
    <3>1. PICK h \in Seq(Nat) : h = held[d] /\ h = held'[d]
      BY <1>1 DEF Inv, EventsStillTrue, TypeOK, serverVars
    <3>2. Intact(d, h)
      BY <3>1 DEF Inv, Streams
    <3>3. Intact(d, h)'
      BY <1>1, <1>2, <3>2, ClientIntact
    <3> QED
      BY <3>1, <3>3
  <2>2. \A d \in Conns : conn'[d] \in {"new", "backlog"} =>
            conn[d] \in {"new", "backlog"} /\ held'[d] = held[d]
    BY <1>1, <1>2
       DEF ClientStep, Connect, Send, Finish, Reset, Receive, TcpTypeOK,
           serverVars
  <2>3. Untouched' /\ CleanClose'
    BY <1>1, <1>2, ClientUntouched, ClientClean
  <2> QED
    BY <2>1, <2>2, <2>3 DEF Inv, Streams
<1> QED
  BY <1>1, <1>2, <1>4, <1>5, ClientEchoes DEF Inv

-----------------------------------------------------------------------------
(* The loop                                                                *)

\* What epoll_wait reports is true when it returns.
LEMMA StepWait ==
    ASSUME Inv, EpollWait
    PROVE  Inv' /\ EchoStep
<1>1. PICK ready \in SUBSET (Open \cup {Listener}) :
        events' = [i \in ready |-> Reported(i)]
  BY DEF EpollWait
<1>2. UNCHANGED <<tcpVars, up, held>>
  BY DEF EpollWait
<1>3. \A i : Reported(i)' = Reported(i)
  BY <1>2 DEF Reported, Readable, Writable, Backlog, tcpVars
<1>4. DOMAIN events' = ready /\ \A i \in ready : events'[i] = Reported(i)
  BY <1>1
<1>5. TypeOK'
  <2>1. TcpTypeOK'
    BY <1>2 DEF Inv, EventsStillTrue, TypeOK, TcpTypeOK, tcpVars
  <2>2. \A i \in ready :
          i \in Items /\ Reported(i) \subseteq {"in", "out", "hup"}
    BY ReportedBits DEF Items, Open
  <2> QED
    BY <1>2, <1>4, <2>1, <2>2 DEF Inv, EventsStillTrue, TypeOK
<1>6. EventsStillTrue'
  <2>1. Open' = Open
    BY <1>2 DEF Open, tcpVars
  <2> QED
    BY <1>3, <1>4, <1>5, <2>1 DEF EventsStillTrue
<1>7. Streams'
  BY <1>2 DEF Inv, Streams, Untouched, CleanClose, Intact, First, tcpVars
<1> QED
  BY <1>2, <1>6, <1>7, QuietRead DEF Inv, tcpVars

\* The events left by a handler, which acts on one item only.
LEMMA Handled ==
    ASSUME NEW i, Handle(i)
    PROVE  /\ up /\ i \in DOMAIN events
           /\ DOMAIN events' = DOMAIN events \ {i}
           /\ \A j \in DOMAIN events' : events'[j] = events[j]
  BY DEF Handle, Without

\* What is known of a connection whose event is handled.
LEMMA ReportedStillTrue ==
    ASSUME Inv, NEW c \in Conns, Handle(c)
    PROVE  /\ conn[c] = "open" /\ TcpTypeOK /\ held[c] \in Seq(Nat)
           /\ Len(held[c]) <= BufSize /\ Intact(c, held[c])
           /\ CleanClose /\ Untouched
           /\ "hup" \in events[c] => rst[c]
<1>1. c \in Open \cup {Listener} /\ events[c] \subseteq Reported(c)
  BY DEF Handle, Inv, EventsStillTrue
<1>2. conn[c] = "open"
  BY <1>1, StatefulAssumption DEF Open
<1>3. "hup" \in events[c] => rst[c]
  BY <1>1, ReportedConn
<1> QED
  BY <1>2, <1>3 DEF Inv, EventsStillTrue, TypeOK, Streams

\* A handler that changes one connection, whose event it takes, keeps the
\* other events true.
LEMMA OthersStillTrue ==
    ASSUME Inv, TypeOK', NEW c \in Conns, Handle(c), up' = up,
           conn[c] # "backlog",
           \A d \in Conns \ {c} :
              /\ conn'[d] = conn[d] /\ rcvq'[d] = rcvq[d]
              /\ sndq'[d] = sndq[d] /\ fin'[d] = fin[d] /\ rst'[d] = rst[d]
    PROVE  EventsStillTrue'
<1>1. /\ DOMAIN events' = DOMAIN events \ {c}
      /\ \A j \in DOMAIN events' : events'[j] = events[j]
  BY Handled
<1>2. Backlog # {} => Backlog' # {}
  BY DEF Backlog
<1>3. \A d \in Conns : d \in DOMAIN events' =>
          /\ conn[d] = "open" => conn'[d] = "open"
          /\ Readable(d) => Readable(d)'
          /\ Writable(d) => Writable(d)'
          /\ rst[d] => rst'[d]
  BY <1>1 DEF Readable, Writable
<1> QED
  BY <1>1, <1>2, <1>3, EventsKept DEF Inv

\* The server ends, with what it held.
LEMMA StepExit ==
    ASSUME Inv, Exit, NEW i, Handle(i)
    PROVE  Inv' /\ EchoStep
<1>1. SockExit /\ up' = FALSE /\ UNCHANGED held /\ TcpTypeOK
  BY DEF Exit, Inv, EventsStillTrue, TypeOK
<1>2. /\ TcpTypeOK' /\ Untouched' /\ CleanClose' /\ EchoStep
      /\ \A d \in Conns : \A h : Intact(d, h) => Intact(d, h)'
  BY <1>1, ExitKeeps DEF Inv, Streams
<1>3. EventsStillTrue'
  <2>1. /\ DOMAIN events' \subseteq DOMAIN events
        /\ \A j \in DOMAIN events' : events'[j] = events[j]
    BY Handled
  <2> QED
    BY <1>1, <1>2, <2>1 DEF Inv, EventsStillTrue, TypeOK
<1>4. Streams'
  <2>1. ASSUME NEW d \in Conns PROVE Intact(d, held[d])'
    <3>1. PICK h : h = held[d] /\ h = held'[d]
      BY <1>1
    <3>2. Intact(d, h)'
      BY <1>2, <3>1 DEF Inv, Streams
    <3> QED
      BY <3>1, <3>2
  <2>2. \A d \in Conns : conn'[d] \in {"new", "backlog"} =>
            conn[d] \in {"new", "backlog"} /\ held'[d] = held[d]
    BY <1>1 DEF SockExit
  <2> QED
    BY <1>2, <2>1, <2>2 DEF Inv, Streams
<1> QED
  BY <1>2, <1>3, <1>4 DEF Inv

\* Accepting touches no report of a client.
LEMMA StepAccept ==
    ASSUME Inv, NEW c \in Conns, Accept(c)
    PROVE  Inv' /\ EchoStep
<1>1. /\ Handle(Listener) /\ conn[c] = "backlog"
      /\ conn' = [conn EXCEPT ![c] = "open"]
      /\ held' = [held EXCEPT ![c] = <<>>]
      /\ UNCHANGED <<sent, fin, rst, rcvq, sndq, got, up>>
  BY DEF Accept, Backlog
<1>2. TcpTypeOK /\ held[c] = <<>>
  BY <1>1 DEF Inv, EventsStillTrue, TypeOK, Streams
<1>3. UNCHANGED held
  BY <1>1, <1>2 DEF Inv, EventsStillTrue, TypeOK
<1>4. /\ TcpTypeOK' /\ Untouched' /\ CleanClose'
      /\ \A d \in Conns : \A h : Intact(d, h) => Intact(d, h)'
  BY <1>1, <1>2, AcceptKeeps DEF Inv, Streams
<1>5. EventsStillTrue'
  <2>1. /\ DOMAIN events' = DOMAIN events \ {Listener}
        /\ \A j \in DOMAIN events' : events'[j] = events[j]
    BY <1>1, Handled
  <2>2. TypeOK'
    BY <1>1, <1>3, <1>4, <2>1 DEF Inv, EventsStillTrue, TypeOK
  <2>3. \A d \in Conns : /\ conn[d] = "open" => conn'[d] = "open"
                         /\ Readable(d) => Readable(d)'
                         /\ Writable(d) => Writable(d)'
                         /\ rst[d] => rst'[d]
    BY <1>1, <1>2 DEF Readable, Writable, TcpTypeOK
  <2> QED
    BY <1>1, <2>1, <2>2, <2>3, EventsKept DEF Inv
<1>6. Streams'
  <2>1. ASSUME NEW d \in Conns PROVE Intact(d, held[d])'
    <3>1. PICK h : h = held[d] /\ h = held'[d]
      BY <1>3
    <3>2. Intact(d, h)'
      BY <1>4, <3>1 DEF Inv, Streams
    <3> QED
      BY <3>1, <3>2
  <2>2. \A d \in Conns : conn'[d] \in {"new", "backlog"} =>
            conn[d] \in {"new", "backlog"} /\ held'[d] = held[d]
    BY <1>1, <1>2, <1>3 DEF TcpTypeOK
  <2> QED
    BY <1>4, <2>1, <2>2 DEF Inv, Streams
<1> QED
  BY <1>1, <1>2, <1>5, <1>6, QuietAccept DEF Inv

-----------------------------------------------------------------------------
(* The handlers of a connection's events                                   *)

\* close_connection after a reset, or at the end of the stream.
LEMMA StepClose ==
    ASSUME Inv, NEW c \in Conns, Handle(c), CloseConnection(c),
           rst[c] \/ (fin[c] /\ rcvq[c] = <<>> /\ held[c] = <<>>)
    PROVE  Inv' /\ EchoStep
<1>1. /\ conn[c] = "open" /\ TcpTypeOK /\ Intact(c, held[c])
      /\ CleanClose /\ Untouched
  BY ReportedStillTrue
<1>2. /\ SockClose(c) /\ held' = [held EXCEPT ![c] = <<>>] /\ up' = up
  BY DEF CloseConnection
<1>3. /\ TcpTypeOK' /\ Untouched' /\ CleanClose' /\ EchoStep
      /\ \A d \in Conns \ {c} : \A h : Intact(d, h) => Intact(d, h)'
      /\ Intact(c, <<>>)'
  <2>1. rst[c] \/ (fin[c] /\ rcvq[c] = <<>> /\ Intact(c, <<>>))
    BY <1>1
  <2> QED
    BY <1>1, <1>2, <2>1, CloseKeeps
<1>4. /\ held'[c] = <<>>
      /\ \A d \in Conns \ {c} : held'[d] = held[d]
  BY <1>2 DEF Inv, EventsStillTrue, TypeOK
<1>5. /\ conn'[c] \notin {"new", "backlog"}
      /\ \A d \in Conns \ {c} :
            /\ conn'[d] = conn[d] /\ rcvq'[d] = rcvq[d]
            /\ sndq'[d] = sndq[d] /\ fin'[d] = fin[d] /\ rst'[d] = rst[d]
  BY <1>1, <1>2 DEF SockClose, TcpTypeOK
<1>6. TypeOK'
  <2>1. <<>> \in Seq(Nat) /\ Len(<<>>) <= BufSize
    BY StatefulAssumption, EmptySeq
  <2>2. /\ DOMAIN events' \subseteq DOMAIN events
        /\ \A j \in DOMAIN events' : events'[j] = events[j]
    BY Handled
  <2> QED
    BY <1>2, <1>3, <2>1, <2>2 DEF Inv, EventsStillTrue, TypeOK
<1>7. EventsStillTrue'
  BY <1>1, <1>2, <1>5, <1>6, OthersStillTrue
<1>8. Streams'
  <2>1. ASSUME NEW d \in Conns \ {c} PROVE Intact(d, held[d])'
    <3>1. PICK h : h = held[d] /\ h = held'[d]
      BY <1>4
    <3>2. Intact(d, h)'
      BY <1>3, <3>1 DEF Inv, Streams
    <3> QED
      BY <3>1, <3>2
  <2>2. Intact(c, held[c])'
    BY <1>3, <1>4
  <2> QED
    BY <1>3, <1>4, <1>5, <2>1, <2>2 DEF Inv, Streams
<1> QED
  BY <1>3, <1>7, <1>8 DEF Inv

\* A write of a writable socket takes all the bytes and blocks nowhere.
LEMMA StepWrite ==
    ASSUME Inv, NEW c \in Conns, Write(c)
    PROVE  Inv' /\ EchoStep
<1>1. /\ Handle(c) /\ held[c] # <<>> /\ ~rst[c]
      /\ Len(sndq[c]) + Len(held[c]) <= SndCap
      /\ SockWrite(c, held[c])
      /\ held' = [held EXCEPT ![c] = <<>>]
      /\ up' = up
  BY DEF Write, MayWrite
<1>2. /\ conn[c] = "open" /\ TcpTypeOK /\ Intact(c, held[c])
      /\ CleanClose /\ Untouched /\ held[c] \in Seq(Nat)
  BY <1>1, ReportedStillTrue
<1>3. PICK data \in Seq(Nat), r \in Seq(Nat) :
        data = held[c] /\ r = <<>> /\ data \o r = data
  BY <1>2, ConcatEmptySeq, EmptySeq
<1>4. /\ TcpTypeOK' /\ Untouched' /\ CleanClose' /\ EchoStep
      /\ \A d \in Conns \ {c} : \A h : Intact(d, h) => Intact(d, h)'
      /\ Intact(c, r)'
  <2>1. /\ SockWrite(c, data) /\ data # <<>> /\ Intact(c, data \o r)
        /\ Len(sndq[c]) + Len(data) <= SndCap
    BY <1>1, <1>2, <1>3
  <2> QED
    BY <1>1, <1>2, <2>1, WriteKeeps
<1>5. /\ held'[c] = <<>>
      /\ \A d \in Conns \ {c} : held'[d] = held[d]
  BY <1>1 DEF Inv, EventsStillTrue, TypeOK
<1>6. /\ UNCHANGED <<conn, rcvq, fin, rst>>
      /\ \A d \in Conns \ {c} : sndq'[d] = sndq[d]
  BY <1>1, <1>2 DEF SockWrite, TcpTypeOK
<1>7. TypeOK'
  <2>1. <<>> \in Seq(Nat) /\ Len(<<>>) <= BufSize
    BY StatefulAssumption, EmptySeq
  <2>2. /\ DOMAIN events' \subseteq DOMAIN events
        /\ \A j \in DOMAIN events' : events'[j] = events[j]
    BY <1>1, Handled
  <2> QED
    BY <1>1, <1>4, <2>1, <2>2 DEF Inv, EventsStillTrue, TypeOK
<1>8. EventsStillTrue'
  BY <1>1, <1>2, <1>6, <1>7, OthersStillTrue
<1>9. Streams'
  <2>1. ASSUME NEW d \in Conns \ {c} PROVE Intact(d, held[d])'
    <3>1. PICK h : h = held[d] /\ h = held'[d]
      BY <1>5
    <3>2. Intact(d, h)'
      BY <1>4, <3>1 DEF Inv, Streams
    <3> QED
      BY <3>1, <3>2
  <2>2. Intact(c, held[c])'
    BY <1>3, <1>4, <1>5
  <2> QED
    BY <1>4, <1>5, <1>6, <2>1, <2>2 DEF Inv, Streams
<1> QED
  BY <1>4, <1>8, <1>9 DEF Inv

\* A read of a readable socket takes the next bytes.
LEMMA StepRead ==
    ASSUME Inv, NEW c \in Conns, NEW n \in 1 .. BufSize, Read(c, n)
    PROVE  Inv' /\ EchoStep
<1>1. /\ Handle(c) /\ held[c] = <<>> /\ n <= Len(rcvq[c])
      /\ SockRead(c, n)
      /\ held' = [held EXCEPT ![c] = SubSeq(rcvq[c], 1, n)]
      /\ up' = up
  BY DEF Read, MayRead
<1>2. /\ conn[c] = "open" /\ TcpTypeOK /\ Intact(c, <<>>)
      /\ CleanClose /\ Untouched
  BY <1>1, ReportedStillTrue
<1>3. n \in 1 .. Len(rcvq[c])
  BY <1>1, <1>2, ConnType, StatefulAssumption
<1>4. PICK a \in Seq(Nat) : a = SubSeq(rcvq[c], 1, n) /\ Len(a) = n
  BY <1>1, <1>2, <1>3, ReadKeeps
<1>5. /\ TcpTypeOK' /\ Untouched' /\ CleanClose'
      /\ \A d \in Conns \ {c} : \A h : Intact(d, h) => Intact(d, h)'
      /\ Intact(c, a)'
  BY <1>1, <1>2, <1>3, <1>4, ReadKeeps
<1>6. /\ held'[c] = a /\ held' = [held EXCEPT ![c] = a]
      /\ \A d \in Conns \ {c} : held'[d] = held[d]
  BY <1>1, <1>4 DEF Inv, EventsStillTrue, TypeOK
<1>7. /\ UNCHANGED <<conn, sent, fin, rst, sndq, got>>
      /\ \A d \in Conns \ {c} : rcvq'[d] = rcvq[d]
  BY <1>1, <1>2 DEF SockRead, TcpTypeOK
<1>8. TypeOK'
  <2>1. Len(a) <= BufSize
    BY <1>4, StatefulAssumption
  <2>2. /\ DOMAIN events' \subseteq DOMAIN events
        /\ \A j \in DOMAIN events' : events'[j] = events[j]
    BY <1>1, Handled
  <2>3. held' \in [Conns -> Seq(Nat)]
        /\ \A d \in Conns : Len(held'[d]) <= BufSize
    BY <1>6, <2>1 DEF Inv, EventsStillTrue, TypeOK
  <2> QED
    BY <1>1, <1>5, <2>2, <2>3 DEF Inv, EventsStillTrue, TypeOK
<1>9. EventsStillTrue'
  BY <1>1, <1>2, <1>7, <1>8, OthersStillTrue
<1>10. Streams'
  <2>1. ASSUME NEW d \in Conns \ {c} PROVE Intact(d, held[d])'
    <3>1. PICK h : h = held[d] /\ h = held'[d]
      BY <1>6
    <3>2. Intact(d, h)'
      BY <1>5, <3>1 DEF Inv, Streams
    <3> QED
      BY <3>1, <3>2
  <2>2. Intact(c, held[c])'
    BY <1>5, <1>6
  <2> QED
    BY <1>2, <1>5, <1>6, <1>7, <2>1, <2>2 DEF Inv, Streams
<1>11. EchoStep
  BY <1>7, QuietRead
<1> QED
  BY <1>9, <1>10, <1>11 DEF Inv

\* A handler that finds nothing to do for its event.
LEMMA StepIgnore ==
    ASSUME Inv, NEW c \in Conns, Ignore(c)
    PROVE  Inv' /\ EchoStep
<1>1. Handle(c) /\ UNCHANGED <<tcpVars, up, held>>
  BY DEF Ignore
<1>2. conn[c] = "open"
  BY <1>1, ReportedStillTrue
<1>3. TypeOK'
  <2>1. /\ DOMAIN events' \subseteq DOMAIN events
        /\ \A j \in DOMAIN events' : events'[j] = events[j]
    BY <1>1, Handled
  <2> QED
    BY <1>1, <2>1 DEF Inv, EventsStillTrue, TypeOK, TcpTypeOK, tcpVars
<1>4. EventsStillTrue'
  BY <1>1, <1>2, <1>3, OthersStillTrue DEF tcpVars
<1>5. Streams'
  BY <1>1 DEF Inv, Streams, Untouched, CleanClose, Intact, First, tcpVars
<1> QED
  BY <1>1, <1>4, <1>5, QuietRead DEF Inv, tcpVars

\* Every way to handle an event of a client.
LEMMA StepHandler ==
    ASSUME Inv, NEW c \in Conns, Handler(c)
    PROVE  Inv' /\ EchoStep
<1>1. CASE Hangup(c)
  BY <1>1, ReportedStillTrue, StepClose DEF Hangup
<1>2. CASE WriteError(c)
  BY <1>2, StepClose, StepExit DEF WriteError
<1>3. CASE ReadEnd(c)
  BY <1>3, StepClose DEF ReadEnd, MayRead
<1> QED
  BY <1>1, <1>2, <1>3, StepAccept, StepWrite, StepRead, StepIgnore
     DEF Handler

-----------------------------------------------------------------------------
(* The server                                                              *)

\* Every step of the server and its clients.
LEMMA InvStep ==
    ASSUME Inv, [Next]_vars
    PROVE  Inv' /\ EchoStep
<1>1. CASE EpollWait
  BY <1>1, StepWait
<1>2. CASE AcceptError
  BY <1>2, StepExit DEF AcceptError
<1>3. CASE UNCHANGED vars
  <2> USE DEF vars, tcpVars, serverVars
  <2>1. TypeOK'
    BY <1>3 DEF Inv, EventsStillTrue, TypeOK, TcpTypeOK
  <2>2. EventsStillTrue'
    <3>1. UNCHANGED <<up, events>> /\ Open' = Open
          /\ \A i : Reported(i)' = Reported(i)
      BY <1>3 DEF Open, Reported, Readable, Writable, Backlog
    <3> QED
      BY <2>1, <3>1 DEF Inv, EventsStillTrue
  <2>3. Streams'
    BY <1>3 DEF Inv, Streams, Untouched, CleanClose, Intact, First
  <2> QED
    BY <1>3, <2>2, <2>3, QuietRead DEF Inv
<1> QED
  BY <1>1, <1>2, <1>3, StepHandler, StepClient DEF Next, Server

\* What epoll_wait reported stays true through the handlers of the events
\* before it and through whatever clients do, so that no call blocks.
THEOREM ReportsKept == Spec => []EventsStillTrue
<1>1. Inv => EventsStillTrue
  BY DEF Inv
<1>2. Inv /\ [Next]_vars => Inv'
  BY InvStep
<1> QED
  BY <1>1, <1>2, InvInit, PTL DEF Spec

\* Through events handled or ignored, hangups, resets and the end of the
\* server, clients see the abstract echo service.
THEOREM Implements == Spec => ImplementsEchoService
<1>1. Init => Service!Init
  BY EchoInit DEF Init
<1>2. Inv /\ [Next]_vars => Inv' /\ [Service!Next]_(Service!vars)
  BY InvStep DEF EchoStep
<1> QED
  BY <1>1, <1>2, InvInit, PTL
     DEF Spec, ImplementsEchoService, Service!Spec

\* What a client of the level-triggered server may rely on at any time, also in
\* the middle of a partial write or after a reset.
THEOREM PromiseKept == Spec => []EchoPromised
  BY Implements, ServiceKeeps, PTL
-----------------------------------------------------------------------------
(* The calls of the handlers                                               *)

\* Where epoll_wait reported something to read and no hangup, there are bytes
\* or the end of the stream: a reset alone would have been a hangup too.  The
\* listening socket is reported for nothing but a client to accept.
ReadsFind ==
    /\ \A c \in Conns \cap DOMAIN events :
          "in" \in events[c] /\ "hup" \notin events[c] =>
              rcvq[c] # <<>> \/ fin[c]
    /\ Listener \in DOMAIN events => "in" \in events[Listener]

\* Every call the handlers of the events at hand would make now returns at
\* once: accept has a client, write takes all of the buffer, and read finds
\* bytes or the end of the stream.
CallsReturn ==
    up => \A i \in DOMAIN events :
        /\ i = Listener => Backlog # {}
        /\ i \in Conns =>
              /\ MayWrite(i) /\ ~rst[i] =>
                    Len(sndq[i]) + Len(held[i]) <= SndCap
              /\ MayRead(i) => rcvq[i] # <<>> \/ fin[i]

\* No client takes back what it sent or its end of the stream.
LEMMA ToReadStays ==
    ASSUME TcpTypeOK, NEW c \in Conns, ClientStep(c), NEW d \in Conns,
           rcvq[d] # <<>> \/ fin[d]
    PROVE  rcvq'[d] # <<>> \/ fin'[d]
<1>1. CASE Send(c) /\ d = c
  <2>1. rcvq[c] \in Seq(Nat) /\ sent[c] + 1 \in Nat
    BY ConnType
  <2>2. /\ Append(rcvq[c], sent[c] + 1) \in Seq(Nat)
        /\ Len(Append(rcvq[c], sent[c] + 1)) = Len(rcvq[c]) + 1
        /\ Len(rcvq[c]) \in Nat
    BY <2>1, AppendByte, LenProperties
  <2>3. Append(rcvq[c], sent[c] + 1) # <<>>
    BY <2>2, EmptySeq
  <2> QED
    BY <1>1, <2>3 DEF Send, TcpTypeOK
<1>2. CASE ~(Send(c) /\ d = c)
  BY <1>2
  DEF ClientStep, Connect, Send, Finish, Reset, Receive, TcpTypeOK
<1> QED
  BY <1>1, <1>2

\* A handler leaves the other events and what there is to read for them.
LEMMA ReadsFindHandler ==
    ASSUME Inv, ReadsFind, AcceptError \/ \E c \in Conns : Handler(c)
    PROVE  ReadsFind'
<1>1. TcpTypeOK
  BY DEF Inv, EventsStillTrue, TypeOK
<1>2. PICK i : /\ Handle(i)
               /\ \A d \in Conns \ {i} : rcvq'[d] = rcvq[d]
               /\ fin' = fin
  <2>1. CASE AcceptError
    BY <2>1 DEF AcceptError, Exit, SockExit
  <2>2. ASSUME NEW c \in Conns, Accept(c)
        PROVE  Handle(Listener) /\ UNCHANGED <<rcvq, fin>>
    BY <2>2 DEF Accept
  <2>3. ASSUME NEW c \in Conns, Handler(c), ~Accept(c)
        PROVE  /\ Handle(c) /\ fin' = fin
               /\ \A d \in Conns \ {c} : rcvq'[d] = rcvq[d]
    BY <1>1, <2>3
    DEF Handler, Hangup, Write, WriteError, ReadEnd, Ignore, Read, Exit,
        CloseConnection, SockClose, SockExit, SockRead, SockWrite, tcpVars,
        TcpTypeOK
  <2> QED
    BY <2>1, <2>2, <2>3
<1>3. /\ DOMAIN events' = DOMAIN events \ {i}
      /\ \A j \in DOMAIN events' : events'[j] = events[j]
  BY <1>2, Handled
<1> QED
  BY <1>2, <1>3 DEF ReadsFind

\* Every step keeps what the reads will find.
LEMMA ReadsFindStep ==
    ASSUME Inv, ReadsFind, [Next]_vars
    PROVE  ReadsFind'
<1>1. CASE EpollWait
  <2>1. \A c \in Conns \cap DOMAIN events' : events'[c] = Reported(c)
    BY <1>1 DEF EpollWait
  <2>2. UNCHANGED <<rcvq, fin>>
    BY <1>1 DEF EpollWait, tcpVars
  <2>3. \A c \in Conns : "in" \in Reported(c) /\ "hup" \notin Reported(c) =>
            rcvq[c] # <<>> \/ fin[c]
    BY ReportedConn DEF Readable
  <2>4. Listener \in DOMAIN events' => "in" \in events'[Listener]
    <3>1. Listener \in DOMAIN events' =>
            /\ events'[Listener] = Reported(Listener)
            /\ Reported(Listener) # {}
      BY <1>1 DEF EpollWait
    <3> QED
      BY <3>1, ReportedListener
  <2> QED
    BY <2>1, <2>2, <2>3, <2>4 DEF ReadsFind
<1>2. ASSUME NEW c \in Conns, Client(c) PROVE ReadsFind'
  <2>1. ClientStep(c) /\ events' = events
    BY <1>2
    DEF Client, ClientConnect, ClientSend, ClientFinish, ClientReset,
        ClientReceive, ClientStep, serverVars
  <2>2. TcpTypeOK
    BY DEF Inv, EventsStillTrue, TypeOK
  <2> QED
    BY <2>1, <2>2, ToReadStays DEF ReadsFind
<1>3. CASE UNCHANGED vars
  BY <1>3 DEF vars, tcpVars, serverVars, ReadsFind
<1> QED
  BY <1>1, <1>2, <1>3, ReadsFindHandler DEF Next, Server

\* What is reported and still true is enough for the call to return.
LEMMA ReportedReturns ==
    ASSUME Inv, ReadsFind
    PROVE  CallsReturn
<1> SUFFICES ASSUME up, NEW i \in DOMAIN events
             PROVE  /\ i = Listener => Backlog # {}
                    /\ i \in Conns =>
                          /\ MayWrite(i) /\ ~rst[i] =>
                                Len(sndq[i]) + Len(held[i]) <= SndCap
                          /\ MayRead(i) => rcvq[i] # <<>> \/ fin[i]
  BY DEF CallsReturn
<1>1. events[i] \subseteq Reported(i)
  BY DEF Inv, EventsStillTrue
<1>2. i = Listener => Backlog # {}
  BY <1>1, ReportedListener DEF ReadsFind
<1>3. ASSUME i \in Conns, MayWrite(i), ~rst[i]
      PROVE  Len(sndq[i]) + Len(held[i]) <= SndCap
  <2>1. Writable(i)
    BY <1>1, <1>3, ReportedConn DEF MayWrite
  <2>2. Len(sndq[i]) <= SndLow /\ Len(held[i]) <= BufSize
    BY <1>3, <2>1 DEF Writable, Inv, EventsStillTrue, TypeOK
  <2>3. Len(sndq[i]) \in Nat /\ Len(held[i]) \in Nat
    <3>1. sndq[i] \in Seq(Nat) /\ held[i] \in Seq(Nat)
      BY <1>3 DEF Inv, EventsStillTrue, TypeOK, TcpTypeOK
    <3> QED
      BY <3>1, LenProperties
  <2>4. PICK a \in Nat, b \in Nat : a = Len(sndq[i]) /\ b = Len(held[i])
    BY <2>3
  <2>5. a <= SndLow /\ b <= BufSize
    BY <2>2, <2>4
  <2>6. a + b <= SndCap
    BY <2>5, SocketAssumption, StatefulAssumption
  <2> QED
    BY <2>4, <2>6
<1>4. i \in Conns /\ MayRead(i) => rcvq[i] # <<>> \/ fin[i]
  BY DEF MayRead, ReadsFind
<1> QED
  BY <1>2, <1>3, <1>4

\* The single thread of the stateful server is never blocked by a client,
\* although its sockets are: not by one that was reset or read slowly since
\* epoll_wait, nor by what the handlers before did.
THEOREM NeverBlocks == Spec => []CallsReturn
<1>1. Init => ReadsFind
  BY DEF Init, ReadsFind, Nothing
<1>2. Inv /\ [Next]_vars => Inv'
  BY InvStep
<1>3. Inv /\ ReadsFind /\ [Next]_vars => ReadsFind'
  BY ReadsFindStep
<1>4. Inv /\ ReadsFind => CallsReturn
  BY ReportedReturns
<1> QED
  BY <1>1, <1>2, <1>3, <1>4, InvInit, PTL DEF Spec
=============================================================================
