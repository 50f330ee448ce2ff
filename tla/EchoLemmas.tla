----------------------------- MODULE EchoLemmas -----------------------------
(***************************************************************************)
(* Facts the proofs about the echo servers share: byte streams cut into    *)
(* pieces, and which steps of connections are steps of the echo service.   *)
(***************************************************************************)
EXTENDS TcpSockets, SequenceTheorems, TLAPS

-----------------------------------------------------------------------------
(* Streams: what the queues and buffers of the servers do to the           *)
(* concatenation of their contents                                         *)

\* A buffer is a sequence of its size.
LEMMA ArrayIsSeq ==
    ASSUME NEW n \in Nat, NEW f \in [1 .. n -> Nat]
    PROVE  f \in Seq(Nat) /\ Len(f) = n
<1>1. f \in Seq(Nat)
  BY SeqDef
<1>2. QED
  BY <1>1, LenProperties

\* Appending a byte.
LEMMA AppendByte ==
    ASSUME NEW s \in Seq(Nat), NEW x \in Nat
    PROVE  /\ Append(s, x) \in Seq(Nat)
           /\ Len(Append(s, x)) = Len(s) + 1
  BY AppendProperties

\* Taking the first byte off.
LEMMA TakeByte ==
    ASSUME NEW s \in Seq(Nat), s # <<>>
    PROVE  /\ Head(s) \in Nat
           /\ Tail(s) \in Seq(Nat)
           /\ Len(Tail(s)) = Len(s) - 1
  BY HeadTailProperties

\* The bytes of a buffer between two of its indices.
LEMMA Slice ==
    ASSUME NEW s, NEW a \in Nat, NEW b \in Nat, a <= b,
           \A i \in a + 1 .. b : s[i] \in Nat
    PROVE  /\ SubSeq(s, a + 1, b) \in Seq(Nat)
           /\ Len(SubSeq(s, a + 1, b)) = b - a
           /\ \A i \in 1 .. b - a : SubSeq(s, a + 1, b)[i] = s[a + i]
<1>1. a + 1 \in Int /\ b \in Int
  OBVIOUS
<1>2. /\ SubSeq(s, a + 1, b) \in Seq(Nat)
      /\ Len(SubSeq(s, a + 1, b)) =
           IF a + 1 <= b THEN b - (a + 1) + 1 ELSE 0
      /\ \A i \in 1 .. b - (a + 1) + 1 :
           SubSeq(s, a + 1, b)[i] = s[a + 1 + i - 1]
  BY <1>1, SubSeqProperties
<1>3. QED
  BY <1>2

\* Concatenation stays within the sequences of numbers, and lengths add up.
LEMMA ConcatLen ==
    ASSUME NEW s \in Seq(Nat), NEW t \in Seq(Nat)
    PROVE  /\ s \o t \in Seq(Nat)
           /\ Len(s \o t) = Len(s) + Len(t)
  BY ConcatProperties

\* A sender's byte goes to the end of the whole stream.
LEMMA AppendToLast ==
    ASSUME NEW s \in Seq(Nat), NEW t \in Seq(Nat), NEW x \in Nat
    PROVE  s \o Append(t, x) = Append(s \o t, x)
<1>1. <<x>> \in Seq(Nat) /\ s \o t \in Seq(Nat)
  BY ConcatLen
<1>2. Append(t, x) = t \o <<x>> /\ Append(s \o t, x) = (s \o t) \o <<x>>
  BY <1>1, AppendIsConcat
<1>3. QED
  BY <1>1, <1>2, ConcatAssociative

\* A byte that moves from the head of a queue to the end of the one before.
LEMMA MoveByte ==
    ASSUME NEW s \in Seq(Nat), NEW t \in Seq(Nat), t # <<>>
    PROVE  Append(s, Head(t)) \o Tail(t) = s \o t
<1>1. Head(t) \in Nat /\ Tail(t) \in Seq(Nat) /\ <<Head(t)>> \in Seq(Nat)
  BY TakeByte
<1>2. Append(s, Head(t)) = s \o <<Head(t)>>
  BY <1>1, AppendIsConcat
<1>3. <<Head(t)>> \o Tail(t) = t
  <2>1. Len(t) \in Nat \ {0}
    BY EmptySeq, LenProperties
  <2>2. Tail(t) = SubSeq(t, 2, Len(t)) /\ t = SubSeq(t, 1, Len(t))
        /\ Head(t) = t[1]
    BY TailIsSubSeq, SubSeqFull
  <2>3. SubSeq(t, 1, Len(t)) = <<t[1]>> \o SubSeq(t, 1 + 1, Len(t))
    BY <2>1, SubSeqRecursiveFirst
  <2>4. QED
    BY <2>2, <2>3
<1>4. (s \o <<Head(t)>>) \o Tail(t) = s \o (<<Head(t)>> \o Tail(t))
  BY <1>1, ConcatAssociative, SMTT(40)
<1>5. QED
  BY <1>2, <1>3, <1>4, Zenon

\* The numbering of a stream's bytes.
LEMMA NextNumber ==
    ASSUME NEW n \in Nat
    PROVE  /\ [i \in 1 .. n |-> i] \in Seq(Nat)
           /\ Len([i \in 1 .. n |-> i]) = n
           /\ [i \in 1 .. n + 1 |-> i] = Append([i \in 1 .. n |-> i], n + 1)
<1>1. \A m \in Nat : /\ [i \in 1 .. m |-> i] \in Seq(Nat)
                     /\ Len([i \in 1 .. m |-> i]) = m
  OBVIOUS
<1>2. Append([i \in 1 .. n |-> i], n + 1) \in Seq(Nat)
      /\ Len(Append([i \in 1 .. n |-> i], n + 1)) = n + 1
  BY <1>1, AppendByte
<1>3. \A j \in 1 .. n + 1 :
        [i \in 1 .. n + 1 |-> i][j] = Append([i \in 1 .. n |-> i], n + 1)[j]
  BY <1>1, AppendProperties
<1>4. QED
  BY <1>1, <1>2, <1>3, SeqEqual

\* A queue cut in two.
LEMMA CutQueue ==
    ASSUME NEW s \in Seq(Nat), NEW n \in 1 .. Len(s)
    PROVE  /\ SubSeq(s, 1, n) \in Seq(Nat)
           /\ SubSeq(s, n + 1, Len(s)) \in Seq(Nat)
           /\ SubSeq(s, 1, n) \o SubSeq(s, n + 1, Len(s)) = s
<1>1. \A i \in 1 .. Len(s) : s[i] \in Nat
  BY ElementOfSeq
<1>2. n \in Nat /\ Len(s) \in Nat /\ n <= Len(s) /\ 1 <= n
  BY LenProperties
<1>3. SubSeq(s, 0 + 1, n) \in Seq(Nat) /\ SubSeq(s, n + 1, Len(s)) \in Seq(Nat)
  BY <1>1, <1>2, Slice
<1>4. QED
  BY <1>2, <1>3, ConcatAdjacentSubSeq, SubSeqFull

\* Over bytes, and for any cut of the stream.
LEMMA RegroupAny ==
    ASSUME NEW S, NEW s \in Seq(S), NEW p \in Seq(S), NEW q \in Seq(S)
    PROVE  (s \o p) \o q = s \o (p \o q)
  BY ConcatAssociative, SMTT(40)

\* Concatenation is associative.
LEMMA Regroup == \A s, p, q \in Seq(Nat) : (s \o p) \o q = s \o (p \o q)
<1> DEFINE S == Nat
<1>1. \A s, p, q \in Seq(S) : (s \o p) \o q = s \o (p \o q)
  <2> HIDE DEF S
  <2>1. QED
    BY RegroupAny
<1>2. QED
  BY <1>1

\* The same as a relation of three sequences, so that the one wanted among
\* many is cited by their names.
Regroups(s, p, q) == (s \o p) \o q = s \o (p \o q)

LEMMA RegroupThree == \A s, p, q \in Seq(Nat) : Regroups(s, p, q)
  BY Regroup, Zenon DEF Regroups

\* Names for the indices of a cut of n elements after the first b.
LEMMA CutIndices ==
    \A b, n \in Nat : \E i, m, k \in Nat :
        i = b + 1 /\ m = b + n /\ k = b + n + 1
  OBVIOUS

\* The indices of the first bytes of a longer stream.
LEMMA Within ==
    ASSUME NEW m \in Nat, NEW n \in 1 .. m
    PROVE  \A i \in 0 + 1 .. n : i \in 1 .. n /\ i \in 1 .. m
  OBVIOUS

-----------------------------------------------------------------------------
(* Steps that clients see                                                  *)

\* A step that clients of the service may see, or need not notice.
EchoStep == [Service!Next]_(Service!vars)

\* A connection nobody opened has no end and no reset.
Untouched == \A c \in Conns : conn[c] = "new" => ~fin[c] /\ ~rst[c]

\* A step that leaves phases and bytes alone is a stutter of the service.
LEMMA QuietStep ==
    ASSUME \A c \in Conns : PhaseOf(c)' = PhaseOf(c),
           UNCHANGED <<sent, sndq, got>>
    PROVE  EchoStep
  BY DEF EchoStep, Service!vars

\* A server that takes bytes from the receive queue does nothing of the
\* service's.
LEMMA QuietRead ==
    ASSUME UNCHANGED <<conn, sent, fin, rst, sndq, got>>
    PROVE  EchoStep
<1>1. \A c \in Conns : PhaseOf(c)' = PhaseOf(c)
  BY DEF PhaseOf
<1>2. QED
  BY <1>1, QuietStep

\* Nor does one that accepts: the connection existed for its client before.
LEMMA QuietAccept ==
    ASSUME TcpTypeOK, NEW c \in Conns, conn[c] = "backlog",
           conn' = [conn EXCEPT ![c] = "open"],
           UNCHANGED <<sent, fin, rst, sndq, got>>
    PROVE  EchoStep
<1>1. \A d \in Conns : PhaseOf(d)' = PhaseOf(d)
  BY DEF PhaseOf, TcpTypeOK
<1>2. QED
  BY <1>1, QuietStep

\* connect is the Begin of the service.
LEMMA ConnectBegins ==
    ASSUME TcpTypeOK, Untouched, NEW c \in Conns, Connect(c)
    PROVE  EchoStep
<1>1. PhaseOf(c) = "idle" /\ PhaseOf(c)' = "open"
  BY DEF PhaseOf, Connect, TcpTypeOK, Untouched
<1>2. \A d \in Conns \ {c} : PhaseOf(d)' = PhaseOf(d)
  BY DEF PhaseOf, Connect, TcpTypeOK
<1>3. Service!Begin(c)
  BY <1>1, <1>2 DEF Service!Begin, Connect
<1>4. QED
  BY <1>3 DEF EchoStep, Service!Next

\* A client that sends takes the service's step of the same name.
LEMMA SendSends ==
    ASSUME TcpTypeOK, NEW c \in Conns, Send(c)
    PROVE  EchoStep
<1>1. \A d \in Conns : PhaseOf(d)' = PhaseOf(d)
  BY DEF PhaseOf, Send
<1>2. PhaseOf(c) = "open"
  BY DEF PhaseOf, Send
<1>3. Service!Send(c)
  BY <1>1, <1>2 DEF Service!Send, Send
<1>4. QED
  BY <1>3 DEF EchoStep, Service!Next

\* The client's shutdown takes the service's step of finishing.
LEMMA FinishFinishes ==
    ASSUME TcpTypeOK, NEW c \in Conns, Finish(c)
    PROVE  EchoStep
<1>1. PhaseOf(c) = "open" /\ PhaseOf(c)' = "finished"
  BY DEF PhaseOf, Finish, TcpTypeOK
<1>2. \A d \in Conns \ {c} : PhaseOf(d)' = PhaseOf(d)
  BY DEF PhaseOf, Finish, TcpTypeOK
<1>3. Service!Finish(c)
  BY <1>1, <1>2 DEF Service!Finish, Finish
<1>4. QED
  BY <1>3 DEF EchoStep, Service!Next

\* A reset breaks the connection, and loses at most what was under way.
LEMMA ResetBreaks ==
    ASSUME TcpTypeOK, NEW c \in Conns, Reset(c)
    PROVE  EchoStep
<1>1. PhaseOf(c) \in {"open", "finished"} /\ PhaseOf(c)' = "broken"
  BY DEF PhaseOf, Reset, TcpTypeOK
<1>2. \A d \in Conns \ {c} :
        PhaseOf(d)' = PhaseOf(d) /\ sndq'[d] = sndq[d]
  BY DEF PhaseOf, Reset, TcpTypeOK
<1>3. got[c] \o sndq'[c] = got[c]
  <2>1. sndq'[c] = <<>> /\ got[c] \in Seq(Nat)
    BY DEF Reset, TcpTypeOK
  <2>2. QED
    BY <2>1, ConcatEmptySeq
<1>4. UNCHANGED <<sent, got>>
  BY DEF Reset
<1>5. Service!Break({c}, TRUE)
  BY <1>1, <1>2, <1>3, <1>4 DEF Service!Break
<1>6. QED
  BY <1>5 DEF EchoStep, Service!Next

\* The beginning of a stream cut in two.
LEMMA FirstPart ==
    ASSUME NEW p \in Seq(Nat), NEW q \in Seq(Nat), p # <<>>
    PROVE  SubSeq(p \o q, 1, Len(p)) = p
<1>1. 1 \in 1 .. Len(p) /\ Len(p) \in 1 .. Len(p)
  BY EmptySeq, LenProperties
<1>2. QED
  BY <1>1, SubSeqOfConcat1, SubSeqFull

\* A byte that moves from what is under way to what the client has.
LEMMA MovedByte ==
    ASSUME NEW p \in Seq(Nat), NEW q \in Seq(Nat), q # <<>>
    PROVE  /\ Append(p, Head(q)) \o Tail(q) = p \o q
           /\ Len(p) < Len(p \o q)
           /\ SubSeq(p \o q, 1, Len(p) + 1) = Append(p, Head(q))
<1>1. Head(q) \in Nat /\ Tail(q) \in Seq(Nat)
  BY TakeByte
<1> DEFINE a == Append(p, Head(q))
<1>2. a \in Seq(Nat) /\ Len(a) = Len(p) + 1
  BY <1>1, AppendByte
<1>3. a \o Tail(q) = p \o q
  BY MoveByte
<1>4. Len(p) \in Nat /\ Len(q) \in Nat \ {0}
  BY EmptySeq, LenProperties
<1>5. Len(p) < Len(p \o q)
  <2>1. Len(p \o q) = Len(p) + Len(q)
    BY ConcatLen
  <2>2. QED
    BY <1>4, <2>1
<1>6. SubSeq(p \o q, 1, Len(p) + 1) = a
  <2> HIDE DEF a
  <2>1. a # <<>>
    BY <1>2, <1>4, EmptySeq
  <2>2. SubSeq(a \o Tail(q), 1, Len(a)) = a
    BY <1>1, <1>2, <2>1, FirstPart
  <2>3. QED
    BY ONLY <1>2, <1>3, <2>2
<1>7. QED
  BY <1>3, <1>5, <1>6

\* Bytes written behind those under way.
LEMMA MoreBytes ==
    ASSUME NEW p \in Seq(Nat), NEW q \in Seq(Nat), NEW r \in Seq(Nat),
           r # <<>>, NEW t, t = q \o r, NEW n \in Nat, p \o t = First(n)
    PROVE  Len(p \o q) \in Nat /\ n > Len(p \o q)
<1>1. /\ t \in Seq(Nat) /\ Len(t) = Len(q) + Len(r)
      /\ Len(p \o q) = Len(p) + Len(q)
  BY ConcatLen
<1>2. /\ Len(p) \in Nat /\ Len(q) \in Nat /\ Len(r) \in Nat \ {0}
      /\ Len(p \o t) = Len(p) + Len(t)
  BY <1>1, ConcatLen, EmptySeq, LenProperties
<1>3. Len(First(n)) = n
  BY NextNumber DEF First
<1>4. n = Len(p) + Len(t)
  BY ONLY <1>2, <1>3, p \o t = First(n)
<1>5. QED
  BY ONLY <1>1, <1>2, <1>4

\* What a client reads was put out before.
LEMMA ReceiveDelivers ==
    ASSUME TcpTypeOK, NEW c \in Conns, Receive(c)
    PROVE  EchoStep
<1>1. \A d \in Conns : PhaseOf(d)' = PhaseOf(d)
  BY DEF PhaseOf, Receive
<1>2. /\ sndq[c] # <<>> /\ sndq[c] \in Seq(Nat) /\ got[c] \in Seq(Nat)
      /\ got'[c] = Append(got[c], Head(sndq[c]))
      /\ sndq'[c] = Tail(sndq[c])
      /\ \A d \in Conns \ {c} : got'[d] = got[d] /\ sndq'[d] = sndq[d]
      /\ got' = [got EXCEPT ![c] = got'[c]]
      /\ sent' = sent
  BY DEF Receive, TcpTypeOK
<1>3. /\ got'[c] \o sndq'[c] = got[c] \o sndq[c]
      /\ Len(got[c]) < Len(got[c] \o sndq[c])
      /\ SubSeq(got[c] \o sndq[c], 1, Len(got[c]) + 1) = got'[c]
  BY <1>2, MovedByte
<1>4. \A d \in Conns : got'[d] \o sndq'[d] = got[d] \o sndq[d]
  BY <1>2, <1>3, Zenon
<1>5. Service!Deliver(c)
  BY <1>1, <1>2, <1>3, <1>4 DEF Service!Deliver
<1>6. QED
  BY <1>5 DEF EchoStep, Service!Next

\* The beginning of a stream is a stream.
LEMMA Beginning ==
    ASSUME NEW p \in Seq(Nat), NEW q \in Seq(Nat), NEW n \in Nat,
           p \o q = First(n)
    PROVE  p = First(Len(p)) /\ Len(p) \in 0 .. n
<1>1. Len(p) \in Nat /\ Len(q) \in Nat /\ Len(p \o q) = Len(p) + Len(q)
  BY ConcatLen, LenProperties
<1>2. Len(First(n)) = n
  BY NextNumber DEF First
<1>3. n = Len(p) + Len(q)
  BY ONLY <1>1, <1>2, p \o q = First(n)
<1>4. Len(p) \in 0 .. n
  BY ONLY <1>1, <1>3
<1>5. First(Len(p)) \in Seq(Nat) /\ Len(First(Len(p))) = Len(p)
  BY <1>1, NextNumber DEF First
<1>6. \A i \in 1 .. Len(p) : p[i] = First(Len(p))[i]
  <2>1. \A i \in 1 .. Len(p) : (p \o q)[i] = p[i]
    BY <1>1, ConcatProperties
  <2>2. \A i \in 1 .. Len(p) : First(n)[i] = i /\ First(Len(p))[i] = i
    BY <1>1, <1>3 DEF First
  <2>3. QED
    BY <2>1, <2>2
<1>7. p = First(Len(p))
  BY <1>1, <1>5, <1>6, SeqEqual
<1>8. QED
  BY <1>4, <1>7

\* A write whose bytes are the next to come back is the service's Echo.
LEMMA WriteEchoes ==
    ASSUME TcpTypeOK, NEW c \in Conns, conn[c] = "open", ~rst[c],
           NEW data \in Seq(Nat), data # <<>>, SockWrite(c, data),
           NEW rest \in Seq(Nat),
           got[c] \o sndq'[c] \o rest = First(sent[c])
    PROVE  EchoStep
<1>1. \A d \in Conns : PhaseOf(d)' = PhaseOf(d)
  BY DEF PhaseOf, SockWrite
<1>2. PhaseOf(c) \in {"open", "finished"}
  BY DEF PhaseOf
<1>3. /\ sndq[c] \in Seq(Nat) /\ got[c] \in Seq(Nat)
      /\ sent[c] \in 0 .. MaxSent
      /\ sndq'[c] = sndq[c] \o data
      /\ \A d \in Conns \ {c} : sndq'[d] = sndq[d]
      /\ UNCHANGED <<sent, got>>
  BY DEF SockWrite, TcpTypeOK
<1>4. PICK n : n = Len(got[c] \o sndq'[c])
  OBVIOUS
<1>5. got[c] \o sndq'[c] = First(n) /\ n \in 0 .. sent[c]
  <2>1. sent[c] \in Nat
    BY <1>3, SocketAssumption
  <2>2. sndq'[c] \in Seq(Nat)
    BY <1>3, ConcatLen, Zenon
  <2>3. got[c] \o sndq'[c] \in Seq(Nat)
    BY <1>3, <2>2, ConcatLen
  <2>4. QED
    BY <1>4, <2>1, <2>3, Beginning
<1>6. /\ Len(got[c] \o sndq[c]) \in Nat
      /\ n > Len(got[c] \o sndq[c])
  <2>1. n \in Nat
    BY <1>3, <1>5, SocketAssumption
  <2>2. QED
    BY <1>3, <1>5, <2>1, MoreBytes
<1>7. n \in 1 .. MaxSent /\ n <= sent[c]
  <2>1. \A k \in Nat, s \in 0 .. MaxSent : \A m \in 0 .. s :
          m > k => m \in 1 .. MaxSent /\ m <= s
    BY SocketAssumption
  <2>2. QED
    BY <1>3, <1>5, <1>6, <2>1
<1>8. Service!Echo(c, n)
  <2>1. [d \in Conns |-> got[d] \o sndq[d]]' =
          [[d \in Conns |-> got[d] \o sndq[d]]
             EXCEPT ![c] = Service!Stream(n)]
    BY <1>3, <1>5 DEF First, Service!Stream
  <2>2. QED
    BY <1>1, <1>2, <1>3, <1>6, <1>7, <2>1 DEF Service!Echo
<1>9. QED
  BY <1>7, <1>8 DEF EchoStep, Service!Next

\* The connection closed is reset, or ended and echoed in full.
LEMMA CloseCloses ==
    ASSUME TcpTypeOK, NEW c \in Conns, conn[c] = "open", SockClose(c),
           ~rst[c] => rcvq[c] = <<>>, CleanClose'
    PROVE  EchoStep
<1>1. \A d \in Conns \ {c} : PhaseOf(d)' = PhaseOf(d)
  BY DEF PhaseOf, SockClose, TcpTypeOK
<1>2. UNCHANGED <<sent, rst, sndq, got>>
  BY DEF SockClose, TcpTypeOK
<1>3. conn'[c] = "closed"
  BY DEF SockClose, TcpTypeOK
<1>. ~rst[c] => fin[c] /\ got[c] \o sndq[c] = First(sent[c])
  BY <1>2, <1>3 DEF SockClose, CleanClose, First
<1>4. CASE rst[c]
  <2>1. PhaseOf(c)' = PhaseOf(c)
    BY <1>2, <1>3, <1>4 DEF PhaseOf
  <2>2. QED
    BY <1>1, <1>2, <2>1, QuietStep
<1>5. CASE ~rst[c]
  <2>1. PhaseOf(c) = "finished" /\ PhaseOf(c)' = "closed"
    BY <1>2, <1>3, <1>5 DEF PhaseOf
  <2>2. got[c] \o sndq[c] = Service!Stream(sent[c])
    BY <1>5 DEF First, Service!Stream
  <2>3. Service!Close(c)
    BY <1>1, <1>2, <2>1, <2>2 DEF Service!Close
  <2>4. QED
    BY <2>3 DEF EchoStep, Service!Next
<1>6. QED
  BY <1>4, <1>5

\* Those that end with the server break, with nothing of the echo lost.
LEMMA ExitBreaks ==
    ASSUME TcpTypeOK, SockExit
    PROVE  EchoStep
<1> DEFINE S == {c \in Conns : conn[c] \in {"backlog", "open"} /\ ~rst[c]}
<1>1. \A c \in S : PhaseOf(c) \in {"open", "finished"}
                   /\ PhaseOf(c)' = "broken"
  BY DEF PhaseOf, SockExit
<1>2. \A c \in Conns \ S : PhaseOf(c)' = PhaseOf(c)
  BY DEF PhaseOf, SockExit, TcpTypeOK
<1>3. UNCHANGED <<sent, sndq, got>>
  BY DEF SockExit
<1>4. S \in SUBSET Conns
  OBVIOUS
<1>5. Service!Break(S, FALSE)
  <2> HIDE DEF S
  <2>1. QED
    BY <1>1, <1>2, <1>3, <1>4 DEF Service!Break
<1>6. QED
  BY <1>4, <1>5 DEF EchoStep, Service!Next

\* Sockets that are all new are the service before it begins.
LEMMA EchoInit ==
    ASSUME TcpInit
    PROVE  Service!Init
<1>1. \A c \in Conns : PhaseOf(c) = "idle" /\ got[c] \o sndq[c] = <<>>
  BY DEF PhaseOf, TcpInit
<1>2. QED
  BY <1>1 DEF Service!Init, TcpInit

-----------------------------------------------------------------------------
(* What a server that holds the bytes h of a connection keeps of it        *)

\* A step of a client.
ClientStep(c) ==
    Connect(c) \/ Send(c) \/ Finish(c) \/ Reset(c) \/ Receive(c)

\* Unless the connection broke, the bytes the client sent are what it has,
\* what is under way, what the server holds and what it has not read.
Intact(c, h) ==
    ~rst[c] /\ conn[c] \notin {"aborted", "dead"} =>
        got[c] \o sndq[c] \o h \o rcvq[c] = First(sent[c])

\* The types of one connection, where a leaf needs no more than them.
LEMMA ConnType ==
    ASSUME TcpTypeOK, NEW c \in Conns
    PROVE  /\ sent[c] \in Nat /\ sent[c] \in 0 .. MaxSent
           /\ rcvq[c] \in Seq(Nat) /\ Len(rcvq[c]) \in Nat
           /\ Len(rcvq[c]) <= RcvCap
           /\ sndq[c] \in Seq(Nat) /\ Len(sndq[c]) \in Nat
           /\ Len(sndq[c]) <= SndCap
           /\ got[c] \in Seq(Nat)
           /\ RcvCap \in Nat /\ SndCap \in Nat /\ MaxSent \in Nat
<1>1. /\ sent[c] \in 0 .. MaxSent
      /\ rcvq[c] \in Seq(Nat) /\ Len(rcvq[c]) <= RcvCap
      /\ sndq[c] \in Seq(Nat) /\ Len(sndq[c]) <= SndCap
      /\ got[c] \in Seq(Nat)
  BY DEF TcpTypeOK
<1>2. RcvCap \in Nat /\ SndCap \in Nat /\ MaxSent \in Nat
  BY SocketAssumption
<1> QED
  BY <1>1, <1>2, LenProperties

\* Clients leave the connections well typed.
LEMMA ClientTyped ==
    ASSUME TcpTypeOK, NEW c \in Conns, ClientStep(c)
    PROVE  TcpTypeOK'
<1>1. CASE Connect(c)
  BY <1>1 DEF Connect, TcpTypeOK
<1>2. CASE Send(c)
  <2>1. /\ Append(rcvq[c], sent[c] + 1) \in Seq(Nat)
        /\ Len(Append(rcvq[c], sent[c] + 1)) = Len(rcvq[c]) + 1
    BY ConnType, AppendByte
  <2>2. Len(rcvq[c]) + 1 <= RcvCap /\ sent[c] + 1 \in 0 .. MaxSent
    BY <1>2, ConnType DEF Send
  <2> QED
    BY <1>2, <2>1, <2>2 DEF Send, TcpTypeOK
<1>3. CASE Finish(c)
  BY <1>3 DEF Finish, TcpTypeOK
<1>4. CASE Reset(c)
  <2>1. <<>> \in Seq(Nat) /\ Len(<<>>) <= SndCap
    BY SocketAssumption, EmptySeq
  <2> QED
    BY <1>4, <2>1 DEF Reset, TcpTypeOK
<1>5. CASE Receive(c)
  <2>1. sndq[c] # <<>>
    BY <1>5 DEF Receive
  <2>2. /\ Tail(sndq[c]) \in Seq(Nat) /\ Len(Tail(sndq[c])) = Len(sndq[c]) - 1
        /\ Append(got[c], Head(sndq[c])) \in Seq(Nat)
    BY <2>1, ConnType, TakeByte, AppendByte
  <2>3. Len(Tail(sndq[c])) <= SndCap
    BY <2>2, ConnType
  <2> QED
    BY <1>5, <2>2, <2>3 DEF Receive, TcpTypeOK
<1> QED
  BY <1>1, <1>2, <1>3, <1>4, <1>5 DEF ClientStep

\* A connection is neither finished nor reset before it is made.
LEMMA ClientUntouched ==
    ASSUME TcpTypeOK, Untouched, NEW c \in Conns, ClientStep(c)
    PROVE  Untouched'
  BY DEF Untouched, TcpTypeOK, ClientStep, Connect, Send, Finish, Reset,
         Receive

\* A byte sent is a byte more to read.
LEMMA SendIntact ==
    ASSUME TcpTypeOK, NEW c \in Conns, Send(c),
           NEW h \in Seq(Nat), Intact(c, h)
    PROVE  Intact(c, h)'
<1>1. /\ conn[c] \in {"backlog", "open"} /\ ~rst[c]
      /\ rcvq'[c] = Append(rcvq[c], sent[c] + 1)
      /\ sent'[c] = sent[c] + 1
      /\ UNCHANGED <<conn, rst, sndq, got>>
  BY DEF Send, TcpTypeOK
<1>2. PICK p \in Seq(Nat) : p = got[c] \o sndq[c] \o h
  BY ConnType, ConcatLen, Zenon
<1>3. p \o Append(rcvq[c], sent[c] + 1) = Append(p \o rcvq[c], sent[c] + 1)
  <2>1. rcvq[c] \in Seq(Nat) /\ sent[c] + 1 \in Nat
    BY ConnType
  <2> QED
    BY <2>1, AppendToLast
<1>4. First(sent[c] + 1) = Append(First(sent[c]), sent[c] + 1)
  BY ConnType, NextNumber DEF First
<1>5. p \o rcvq[c] = First(sent[c])
  BY <1>1, <1>2 DEF Intact
<1>6. got'[c] \o sndq'[c] \o h \o rcvq'[c] = First(sent'[c])
  BY <1>1, <1>2, <1>3, <1>4, <1>5, Zenon
<1> QED
  BY <1>6 DEF Intact, First

\* No step of a client puts its stream or another's out of order.
LEMMA ClientIntact ==
    ASSUME TcpTypeOK, NEW c \in Conns, ClientStep(c),
           NEW d \in Conns, NEW h \in Seq(Nat), Intact(d, h)
    PROVE  Intact(d, h)'
<1>1. CASE Connect(c)
  BY <1>1 DEF Connect, TcpTypeOK, Intact, First
<1>2. CASE Send(c)
  <2>1. CASE d = c
    BY <1>2, <2>1, SendIntact
  <2>2. CASE d # c
    BY <1>2, <2>2 DEF Send, TcpTypeOK, Intact, First
  <2> QED
    BY <2>1, <2>2
<1>3. CASE Finish(c)
  BY <1>3 DEF Finish, Intact, First
<1>4. CASE Reset(c)
  BY <1>4 DEF Reset, TcpTypeOK, Intact, First
<1>5. CASE Receive(c)
  <2>1. /\ UNCHANGED <<conn, sent, rst, rcvq>> /\ sndq[c] # <<>>
        /\ got'[c] = Append(got[c], Head(sndq[c]))
        /\ sndq'[c] = Tail(sndq[c])
        /\ d # c => got'[d] = got[d] /\ sndq'[d] = sndq[d]
    BY <1>5 DEF Receive, TcpTypeOK
  <2>2. Append(got[c], Head(sndq[c])) \o Tail(sndq[c]) = got[c] \o sndq[c]
    BY <2>1, ConnType, MoveByte
  <2>3. got'[d] \o sndq'[d] = got[d] \o sndq[d]
    BY <2>1, <2>2, Zenon
  <2> QED
    BY <2>1, <2>3 DEF Intact, First
<1> QED
  BY <1>1, <1>2, <1>3, <1>4, <1>5 DEF ClientStep

\* No step of a client makes a clean close an unclean one.
LEMMA ClientClean ==
    ASSUME TcpTypeOK, CleanClose, NEW c \in Conns, ClientStep(c)
    PROVE  CleanClose'
<1>1. CASE Connect(c)
  BY <1>1 DEF Connect, TcpTypeOK, CleanClose, First
<1>2. CASE Send(c)
  BY <1>2 DEF Send, TcpTypeOK, CleanClose, First
<1>3. CASE Finish(c)
  BY <1>3 DEF Finish, TcpTypeOK, CleanClose, First
<1>4. CASE Reset(c)
  BY <1>4 DEF Reset, TcpTypeOK, CleanClose, First
<1>5. CASE Receive(c)
  <2>1. /\ UNCHANGED <<conn, sent, fin, rst>> /\ sndq[c] # <<>>
        /\ got'[c] = Append(got[c], Head(sndq[c]))
        /\ sndq'[c] = Tail(sndq[c])
        /\ \A d \in Conns \ {c} : got'[d] = got[d] /\ sndq'[d] = sndq[d]
    BY <1>5 DEF Receive, TcpTypeOK
  <2>2. Append(got[c], Head(sndq[c])) \o Tail(sndq[c]) = got[c] \o sndq[c]
    BY <2>1, ConnType, MoveByte
  <2>3. \A d \in Conns : got'[d] \o sndq'[d] = got[d] \o sndq[d]
    BY <2>1, <2>2, Zenon
  <2> QED
    BY <2>1, <2>3 DEF CleanClose, First
<1> QED
  BY <1>1, <1>2, <1>3, <1>4, <1>5 DEF ClientStep

\* Clients do what clients of the service do.
LEMMA ClientEchoes ==
    ASSUME TcpTypeOK, Untouched, NEW c \in Conns, ClientStep(c)
    PROVE  EchoStep
  BY ConnectBegins, SendSends, FinishFinishes, ResetBreaks, ReceiveDelivers
     DEF ClientStep

-----------------------------------------------------------------------------
(* The system calls of a server                                            *)

\* accept.
LEMMA AcceptKeeps ==
    ASSUME TcpTypeOK, NEW c \in Conns, conn[c] = "backlog",
           conn' = [conn EXCEPT ![c] = "open"],
           UNCHANGED <<sent, fin, rst, rcvq, sndq, got>>
    PROVE  /\ TcpTypeOK'
           /\ Untouched => Untouched'
           /\ CleanClose => CleanClose'
           /\ \A d \in Conns : \A h : Intact(d, h) => Intact(d, h)'
<1>1. TcpTypeOK'
  BY DEF TcpTypeOK
<1>2. \A d \in Conns : /\ conn'[d] = "new" => conn[d] = "new"
                       /\ conn'[d] \in {"closed", "aborted"} =>
                            conn[d] \in {"closed", "aborted"}
                       /\ conn[d] \in {"aborted", "dead"} =>
                            conn'[d] \in {"aborted", "dead"}
  BY DEF TcpTypeOK
<1>3. (Untouched => Untouched') /\ (CleanClose => CleanClose')
  BY <1>2 DEF Untouched, CleanClose, First
<1>4. \A d \in Conns : \A h : Intact(d, h) => Intact(d, h)'
  BY <1>2 DEF Intact, First
<1> QED
  BY <1>1, <1>3, <1>4

\* read: the bytes move from the receive buffer to the server.
LEMMA ReadKeeps ==
    ASSUME TcpTypeOK, NEW c \in Conns, NEW n \in 1 .. Len(rcvq[c]),
           SockRead(c, n)
    PROVE  /\ TcpTypeOK'
           /\ Untouched => Untouched'
           /\ CleanClose => CleanClose'
           /\ \A d \in Conns \ {c} : \A h : Intact(d, h) => Intact(d, h)'
           /\ SubSeq(rcvq[c], 1, n) \in Seq(Nat)
           /\ Len(SubSeq(rcvq[c], 1, n)) = n
           /\ \A h : h = SubSeq(rcvq[c], 1, n) /\ Intact(c, <<>>)
                        => Intact(c, h)'
<1>0. n \in Nat /\ n <= Len(rcvq[c]) /\ 0 <= n
  BY ConnType
<1>1. PICK a \in Seq(Nat), b \in Seq(Nat) :
        /\ a = SubSeq(rcvq[c], 1, n)
        /\ b = SubSeq(rcvq[c], n + 1, Len(rcvq[c]))
        /\ a \o b = rcvq[c]
  <2>1. PICK s \in Seq(Nat) : s = rcvq[c]
    BY ConnType
  <2>2. n \in 1 .. Len(s)
    BY <2>1
  <2>3. /\ SubSeq(s, 1, n) \in Seq(Nat)
        /\ SubSeq(s, n + 1, Len(s)) \in Seq(Nat)
        /\ SubSeq(s, 1, n) \o SubSeq(s, n + 1, Len(s)) = s
    BY <2>2, CutQueue
  <2> QED
    BY <2>1, <2>3, Zenon
<1>2. /\ rcvq'[c] = b /\ rcvq' = [rcvq EXCEPT ![c] = b]
      /\ \A d \in Conns \ {c} : rcvq'[d] = rcvq[d]
      /\ UNCHANGED <<conn, sent, fin, rst, sndq, got>>
  BY <1>1 DEF SockRead, TcpTypeOK
<1>3. Len(a) = n /\ Len(b) <= RcvCap
  <2>1. Len(rcvq[c]) = Len(a) + Len(b) /\ Len(a) \in Nat /\ Len(b) \in Nat
    BY <1>1, ConcatLen, LenProperties
  <2>2. \A i \in 0 + 1 .. n : rcvq[c][i] \in Nat
    BY <1>0, ConnType, ElementOfSeq, Within
  <2>3. Len(SubSeq(rcvq[c], 0 + 1, n)) = n - 0
    BY <1>0, <2>2, Slice
  <2>4. Len(a) = n
    BY <1>0, <1>1, <2>3
  <2>5. Len(rcvq[c]) <= RcvCap /\ RcvCap \in Nat
    BY ConnType
  <2> QED
    BY <2>1, <2>4, <2>5
<1>4. TcpTypeOK'
  BY <1>2, <1>3 DEF TcpTypeOK
<1>5. (Untouched => Untouched') /\ (CleanClose => CleanClose')
  BY <1>2 DEF Untouched, CleanClose, First
<1>6. \A d \in Conns \ {c} : \A h : Intact(d, h) => Intact(d, h)'
  BY <1>2 DEF Intact, First
<1>7. Intact(c, <<>>) => Intact(c, a)'
  <2>1. PICK p \in Seq(Nat) : p = got[c] \o sndq[c]
    BY ConnType, ConcatLen
  <2>2. p \o <<>> = p /\ (p \o a) \o b = p \o (a \o b)
    BY ConcatEmptySeq, Regroup
  <2>3. got'[c] \o sndq'[c] \o a \o rcvq'[c]
          = got[c] \o sndq[c] \o <<>> \o rcvq[c]
    BY <1>1, <1>2, <2>1, <2>2, Zenon
  <2> QED
    BY <1>2, <2>3 DEF Intact, First
<1> QED
  BY <1>1, <1>3, <1>4, <1>5, <1>6, <1>7

\* write: the bytes move from the server to the send buffer, and are a part
\* of the echo.
LEMMA WriteKeeps ==
    ASSUME TcpTypeOK, NEW c \in Conns, conn[c] = "open", ~rst[c],
           NEW data \in Seq(Nat), data # <<>>, SockWrite(c, data),
           Len(sndq[c]) + Len(data) <= SndCap,
           NEW r \in Seq(Nat), Intact(c, data \o r)
    PROVE  /\ TcpTypeOK'
           /\ Untouched => Untouched'
           /\ CleanClose => CleanClose'
           /\ \A d \in Conns \ {c} : \A h : Intact(d, h) => Intact(d, h)'
           /\ Intact(c, r)'
           /\ EchoStep
<1>1. /\ sndq'[c] = sndq[c] \o data
      /\ sndq' = [sndq EXCEPT ![c] = sndq[c] \o data]
      /\ \A d \in Conns \ {c} : sndq'[d] = sndq[d]
      /\ UNCHANGED <<conn, sent, fin, rst, rcvq, got>>
  BY DEF SockWrite, TcpTypeOK
<1>2. /\ sndq[c] \o data \in Seq(Nat) /\ data \o r \in Seq(Nat)
      /\ Len(sndq[c] \o data) = Len(sndq[c]) + Len(data)
  BY ConnType, ConcatLen
<1>3. TcpTypeOK'
  BY <1>1, <1>2 DEF TcpTypeOK
<1>4. Untouched => Untouched'
  BY <1>1 DEF Untouched
<1>5. CleanClose => CleanClose'
  BY <1>1 DEF CleanClose, First
<1>6. \A d \in Conns \ {c} : \A h : Intact(d, h) => Intact(d, h)'
  BY <1>1 DEF Intact, First
<1>7. got[c] \o sndq'[c] \o (r \o rcvq[c]) = First(sent[c])
  <2>1. PICK g \in Seq(Nat), s \in Seq(Nat), q \in Seq(Nat) :
          g = got[c] /\ s = sndq[c] /\ q = rcvq[c]
    BY ConnType
  <2>2. PICK z \in Seq(Nat) : z = g \o s
    BY ConcatLen
  <2>3. PICK w \in Seq(Nat) : w = z \o data
    BY ConcatLen
  <2>4. /\ Regroups(g, s, data) /\ Regroups(z, data, r)
        /\ Regroups(w, r, q)
    BY RegroupThree, Zenon
  <2>5. (g \o s) \o (data \o r) \o q = First(sent[c])
    BY <2>1 DEF Intact
  <2> QED
    BY <1>1, <2>1, <2>2, <2>3, <2>4, <2>5, Zenon DEF Regroups
<1>8. EchoStep
  <2>1. r \o rcvq[c] \in Seq(Nat)
    BY ConnType, ConcatLen
  <2> QED
    BY <1>7, <2>1, WriteEchoes
<1>9. Intact(c, r)'
  <2>1. PICK p \in Seq(Nat) : p = got[c] \o sndq'[c]
    BY <1>1, <1>2, ConnType, ConcatLen
  <2>2. (p \o r) \o rcvq[c] = p \o (r \o rcvq[c])
    BY ConnType, Regroup
  <2>3. got'[c] \o sndq'[c] \o r \o rcvq'[c] = First(sent[c])
    BY <1>1, <1>7, <2>1, <2>2, Zenon
  <2> QED
    BY <1>1, <2>3 DEF Intact, First
<1> QED
  BY <1>3, <1>4, <1>5, <1>6, <1>8, <1>9

\* shutdown and close of a connection that was reset, or that ended and of
\* which the server holds nothing more.
LEMMA CloseKeeps ==
    ASSUME TcpTypeOK, CleanClose, NEW c \in Conns, conn[c] = "open",
           SockClose(c),
           \/ rst[c]
           \/ fin[c] /\ rcvq[c] = <<>> /\ Intact(c, <<>>)
    PROVE  /\ TcpTypeOK'
           /\ Untouched => Untouched'
           /\ CleanClose'
           /\ \A d \in Conns \ {c} : \A h : Intact(d, h) => Intact(d, h)'
           /\ Intact(c, <<>>)'
           /\ EchoStep
<1>1. /\ conn'[c] = "closed" /\ sndq'[c] = sndq[c]
      /\ sndq' = sndq
      /\ \A d \in Conns \ {c} : conn'[d] = conn[d]
      /\ conn' = [conn EXCEPT ![c] = "closed"]
      /\ UNCHANGED <<sent, fin, rst, rcvq, got>>
  BY DEF SockClose, TcpTypeOK
<1>2. TcpTypeOK'
  BY <1>1 DEF TcpTypeOK
<1>3. Untouched => Untouched'
  BY <1>1 DEF Untouched
<1>4. ~rst[c] => /\ fin[c] /\ rcvq[c] = <<>>
                 /\ got[c] \o sndq[c] = First(sent[c])
  <2>1. PICK p \in Seq(Nat) : p = got[c] \o sndq[c]
    BY ConnType, ConcatLen
  <2>2. p \o <<>> = p
    BY ConcatEmptySeq
  <2> QED
    BY <2>1, <2>2 DEF Intact
<1>5. CleanClose'
  BY <1>1, <1>4 DEF CleanClose, First
<1>6. \A d \in Conns \ {c} : \A h : Intact(d, h) => Intact(d, h)'
  BY <1>1 DEF Intact, First
<1>7. Intact(c, <<>>)'
  BY <1>1, <1>4 DEF Intact, First
<1>8. EchoStep
  BY <1>4, <1>5, CloseCloses
<1> QED
  BY <1>2, <1>3, <1>5, <1>6, <1>7, <1>8

\* The end of the process.
LEMMA ExitKeeps ==
    ASSUME TcpTypeOK, SockExit
    PROVE  /\ TcpTypeOK'
           /\ Untouched => Untouched'
           /\ CleanClose => CleanClose'
           /\ \A d \in Conns : \A h : Intact(d, h) => Intact(d, h)'
           /\ \A d \in Conns : conn'[d] \notin {"backlog", "open"}
           /\ EchoStep
<1>1. /\ UNCHANGED <<sent, fin, rst, rcvq, sndq, got>>
      /\ \A d \in Conns :
            conn'[d] = IF conn[d] \in {"backlog", "open"} THEN "dead"
                       ELSE conn[d]
  BY DEF SockExit
<1>2. TcpTypeOK'
  BY DEF SockExit, TcpTypeOK
<1>3. (Untouched => Untouched') /\ (CleanClose => CleanClose')
  BY <1>1 DEF Untouched, CleanClose, First
<1>4. \A d \in Conns : \A h : Intact(d, h) => Intact(d, h)'
  BY <1>1 DEF Intact, First
<1>5. \A d \in Conns : conn'[d] \notin {"backlog", "open"}
  BY <1>1
<1> QED
  BY <1>2, <1>3, <1>4, <1>5, ExitBreaks

\* Nothing was sent yet.
LEMMA IntactInit ==
    ASSUME TcpInit
    PROVE  /\ TcpTypeOK /\ Untouched /\ CleanClose
           /\ \A c \in Conns : Intact(c, <<>>)
<1>1. <<>> \o <<>> = <<>> /\ <<>> \in Seq(Nat) /\ Len(<<>>) = 0
  BY ConcatEmptySeq, EmptySeq
<1>2. First(0) = <<>>
  BY DEF First
<1>3. TcpTypeOK
  BY <1>1, SocketAssumption DEF TcpInit, TcpTypeOK
<1>4. Untouched /\ CleanClose
  BY DEF TcpInit, Untouched, CleanClose
<1>5. \A c \in Conns : Intact(c, <<>>)
  BY <1>1, <1>2 DEF TcpInit, Intact
<1> QED
  BY <1>3, <1>4, <1>5

-----------------------------------------------------------------------------
(* What the service promises, which servers that implement it keep         *)

\* The stream of n bytes is the numbers from 1 to n.
LEMMA StreamFacts ==
    \A n \in Nat :
        /\ Service!Stream(n) \in Seq(Nat) /\ Len(Service!Stream(n)) = n
        /\ \A i \in 1 .. n : Service!Stream(n)[i] = i
  BY NextNumber DEF Service!Stream

\* The beginning of a stream is a stream.
LEMMA StreamBegins ==
    ASSUME NEW n \in Nat, NEW m \in Nat, m < n
    PROVE  SubSeq(Service!Stream(n), 1, m + 1) = Service!Stream(m + 1)
<1>1. PICK s \in Seq(Nat) : s = Service!Stream(n) /\ Len(s) = n
        /\ \A i \in 1 .. n : s[i] = i
  BY StreamFacts
<1>2. PICK k \in Nat : k = m + 1 /\ k <= n /\ 0 <= k
  OBVIOUS
<1>3. \A i \in 0 + 1 .. k : s[i] \in Nat
  BY <1>1, <1>2
<1>4. /\ SubSeq(s, 0 + 1, k) \in Seq(Nat)
      /\ Len(SubSeq(s, 0 + 1, k)) = k - 0
      /\ \A i \in 1 .. k - 0 : SubSeq(s, 0 + 1, k)[i] = s[0 + i]
  BY <1>2, <1>3, Slice
<1>5. PICK t \in Seq(Nat) : t = SubSeq(s, 1, k) /\ Len(t) = k
        /\ \A i \in 1 .. k : t[i] = i
  <2>1. 0 + 1 = 1 /\ k - 0 = k
    BY <1>2
  <2>2. /\ SubSeq(s, 1, k) \in Seq(Nat) /\ Len(SubSeq(s, 1, k)) = k
        /\ \A i \in 1 .. k : SubSeq(s, 1, k)[i] = s[0 + i]
    BY <1>4, <2>1
  <2>3. \A i \in 1 .. k : s[0 + i] = i
    BY <1>1, <1>2
  <2> QED
    BY <2>2, <2>3
<1>6. PICK u \in Seq(Nat) : u = Service!Stream(k) /\ Len(u) = k
        /\ \A i \in 1 .. k : u[i] = i
  BY <1>2, StreamFacts
<1>7. t = u
  <2>1. \A i \in 1 .. Len(t) : t[i] = u[i]
    BY <1>5, <1>6
  <2> QED
    BY <1>5, <1>6, <2>1, SeqEqual
<1> QED
  BY <1>1, <1>2, <1>5, <1>6, <1>7

\* What was put out for a client.
Put(c) == got[c] \o sndq[c]

\* The client has a part of what was put out, and that of what it sent.
Kept(c) ==
    /\ sent[c] \in Nat
    /\ \E n \in 0 .. sent[c] : \E m \in 0 .. n :
          Put(c) = Service!Stream(n) /\ got[c] = Service!Stream(m)
    /\ PhaseOf(c) = "closed" => Put(c) = Service!Stream(sent[c])

\* The steps of the service as one connection has them.
Waits(c) ==
    /\ got'[c] = got[c] /\ Put(c)' = Put(c)
    /\ \/ sent'[c] = sent[c]
       \/ sent'[c] = sent[c] + 1 /\ PhaseOf(c)' # "closed"
    /\ PhaseOf(c)' = "closed" =>
          PhaseOf(c) = "closed" \/ Put(c) = Service!Stream(sent[c])
Puts(c) ==
    /\ got'[c] = got[c] /\ sent'[c] = sent[c] /\ PhaseOf(c)' # "closed"
    /\ \E n \in Nat : n > Len(Put(c)) /\ n <= sent[c]
                      /\ Put(c)' = Service!Stream(n)
Gets(c) ==
    /\ Put(c)' = Put(c) /\ sent'[c] = sent[c] /\ PhaseOf(c)' = PhaseOf(c)
    /\ Len(got[c]) < Len(Put(c))
    /\ got'[c] = SubSeq(Put(c), 1, Len(got[c]) + 1)
Loses(c) ==
    /\ got'[c] = got[c] /\ sent'[c] = sent[c] /\ PhaseOf(c)' # "closed"
    /\ Put(c)' = got[c]

\* What a step of the service can do to one connection.
LEMMA ServiceMoves ==
    ASSUME EchoStep, sent \in [Conns -> Nat], DOMAIN got = Conns,
           NEW c \in Conns
    PROVE  Waits(c) \/ Puts(c) \/ Gets(c) \/ Loses(c)
<1> USE SocketAssumption DEF Put, Waits, Puts, Gets, Loses
<1>1. CASE UNCHANGED Service!vars
  <2>1. \A d \in Conns : PhaseOf(d)' = PhaseOf(d) /\ Put(d)' = Put(d)
    BY <1>1 DEF Service!vars
  <2> QED
    BY <1>1, <2>1 DEF Service!vars
<1>2. ASSUME NEW d \in Conns, Service!Begin(d)
      PROVE  Waits(c)
  BY <1>2 DEF Service!Begin
<1>3. ASSUME NEW d \in Conns, Service!Send(d)
      PROVE  Waits(c)
  BY <1>3 DEF Service!Send
<1>4. ASSUME NEW d \in Conns, Service!Finish(d)
      PROVE  Waits(c)
  BY <1>4 DEF Service!Finish
<1>5. ASSUME NEW d \in Conns, Service!Deliver(d)
      PROVE  Waits(c) \/ Gets(c)
  BY <1>5 DEF Service!Deliver
<1>6. ASSUME NEW d \in Conns, Service!Close(d)
      PROVE  Waits(c)
  BY <1>6 DEF Service!Close
<1>7. ASSUME NEW d \in Conns, NEW n \in 1 .. MaxSent, Service!Echo(d, n)
      PROVE  Waits(c) \/ Puts(c)
  <2>1. /\ PhaseOf(d) \in {"open", "finished"}
        /\ n > Len(Put(d)) /\ n <= sent[d] /\ n \in Nat
        /\ Put(d)' = Service!Stream(n)
        /\ UNCHANGED <<sent, got>>
    BY <1>7 DEF Service!Echo
  <2>2. PhaseOf(c)' = PhaseOf(c)
    BY <1>7 DEF Service!Echo
  <2>3. CASE c = d
    BY <2>1, <2>2, <2>3 DEF Puts
  <2>4. CASE c # d
    <3>1. Put(c)' = Put(c)
      BY <1>7, <2>4 DEF Service!Echo
    <3> QED
      BY <2>1, <2>2, <3>1 DEF Waits
  <2> QED
    BY <2>3, <2>4
<1>8. ASSUME NEW S \in SUBSET Conns, NEW lossy \in BOOLEAN,
             Service!Break(S, lossy)
      PROVE  Waits(c) \/ Loses(c)
  BY <1>8 DEF Service!Break
<1> QED
  BY <1>1, <1>2, <1>3, <1>4, <1>5, <1>6, <1>7, <1>8
     DEF EchoStep, Service!Next

\* What is to be shown of a connection after a step.
LEMMA KeptThen ==
    ASSUME NEW c \in Conns, NEW n \in Nat, NEW m \in Nat,
           sent'[c] \in Nat, n <= sent'[c], m <= n,
           Put(c)' = Service!Stream(n), got'[c] = Service!Stream(m),
           PhaseOf(c)' = "closed" => Put(c)' = Service!Stream(sent'[c])
    PROVE  Kept(c)'
<1>1. n \in 0 .. sent'[c] /\ m \in 0 .. n
  OBVIOUS
<1> QED
  BY <1>1 DEF Kept, Service!Stream

\* Each of these keeps the promise made to that connection.
LEMMA KeptStep ==
    ASSUME NEW c \in Conns, Kept(c),
           Waits(c) \/ Puts(c) \/ Gets(c) \/ Loses(c)
    PROVE  Kept(c)'
<1>1. PICK n \in Nat, m \in Nat :
        /\ n <= sent[c] /\ m <= n
        /\ Put(c) = Service!Stream(n) /\ got[c] = Service!Stream(m)
  BY DEF Kept
<1>2. Len(Put(c)) = n /\ Len(got[c]) = m /\ sent[c] \in Nat
  BY <1>1, StreamFacts DEF Kept
<1>3. CASE Waits(c)
  <2>1. /\ sent'[c] \in Nat /\ n <= sent'[c]
        /\ Put(c)' = Service!Stream(n) /\ got'[c] = Service!Stream(m)
    BY <1>1, <1>2, <1>3 DEF Waits
  <2>2. PhaseOf(c)' = "closed" => Put(c)' = Service!Stream(sent'[c])
    <3>1. ASSUME PhaseOf(c)' = "closed"
          PROVE  sent'[c] = sent[c] /\ Put(c) = Service!Stream(sent[c])
      BY <1>3, <3>1 DEF Waits, Kept
    <3> QED
      BY <1>3, <3>1 DEF Waits
  <2> QED
    BY <1>1, <2>1, <2>2, KeptThen
<1>4. CASE Puts(c)
  <2>1. PICK k \in Nat :
          k > n /\ k <= sent[c] /\ Put(c)' = Service!Stream(k)
    BY <1>2, <1>4 DEF Puts
  <2>2. /\ sent'[c] = sent[c] /\ got'[c] = got[c]
        /\ PhaseOf(c)' # "closed" /\ m <= k
    BY <1>1, <1>4, <2>1 DEF Puts
  <2> QED
    BY <1>1, <1>2, <2>1, <2>2, KeptThen
<1>5. CASE Gets(c)
  <2>1. got'[c] = Service!Stream(m + 1) /\ m < n
    BY <1>1, <1>2, <1>5, StreamBegins DEF Gets
  <2>2. /\ Put(c)' = Put(c) /\ sent'[c] = sent[c]
        /\ PhaseOf(c)' = "closed" => Put(c) = Service!Stream(sent[c])
        /\ m + 1 \in Nat /\ m + 1 <= n
    BY <1>5, <2>1 DEF Gets, Kept
  <2> QED
    BY <1>1, <1>2, <2>1, <2>2, KeptThen
<1>6. CASE Loses(c)
  <2>1. /\ Put(c)' = got[c] /\ got'[c] = got[c] /\ sent'[c] = sent[c]
        /\ PhaseOf(c)' # "closed" /\ m <= sent[c]
    BY <1>1, <1>2, <1>6 DEF Loses
  <2> QED
    BY <1>1, <1>2, <2>1, KeptThen
<1> QED
  BY <1>3, <1>4, <1>5, <1>6

PromiseInv ==
    /\ sent \in [Conns -> Nat] /\ DOMAIN got = Conns
    /\ \A c \in Conns : Kept(c)

\* A service that begins has promised nothing yet.
LEMMA PromiseInit == Service!Init => PromiseInv
<1> SUFFICES ASSUME Service!Init PROVE PromiseInv
  OBVIOUS
<1>1. /\ sent \in [Conns -> Nat] /\ DOMAIN got = Conns
      /\ \A c \in Conns : sent[c] = 0 /\ got[c] = <<>>
  BY DEF Service!Init
<1>2. \A c \in Conns : Put(c) = <<>> /\ PhaseOf(c) = "idle"
  BY DEF Service!Init, Put
<1>3. Service!Stream(0) = <<>>
  BY DEF Service!Stream
<1>4. \A c \in Conns : Kept(c)
  BY <1>1, <1>2, <1>3 DEF Kept
<1> QED
  BY <1>1, <1>4 DEF PromiseInv

\* The service keeps its promise in each step.
LEMMA PromiseStep ==
    ASSUME PromiseInv, [Service!Next]_(Service!vars)
    PROVE  PromiseInv'
<1>1. ASSUME NEW c \in Conns PROVE Kept(c)'
  <2>1. EchoStep
    BY DEF EchoStep
  <2>2. Waits(c) \/ Puts(c) \/ Gets(c) \/ Loses(c)
    BY <2>1, ServiceMoves DEF PromiseInv
  <2> QED
    BY <2>2, KeptStep DEF PromiseInv
<1>2. sent' \in [Conns -> Nat] /\ DOMAIN got' = Conns
  <2> USE DEF PromiseInv
  <2>1. CASE UNCHANGED Service!vars
    BY <2>1 DEF Service!vars
  <2>2. ASSUME NEW c \in Conns, Service!Send(c)
        PROVE  sent' \in [Conns -> Nat] /\ got' = got
    BY <2>2 DEF Service!Send
  <2>3. ASSUME NEW c \in Conns, Service!Deliver(c)
        PROVE  sent' = sent /\ DOMAIN got' = Conns
    <3>1. \E f : got' = [got EXCEPT ![c] = f]
      BY <2>3 DEF Service!Deliver
    <3>2. sent' = sent
      BY <2>3 DEF Service!Deliver
    <3> QED
      BY <3>1, <3>2
  <2>4. ASSUME \/ \E c \in Conns :
                     \/ Service!Begin(c) \/ Service!Finish(c)
                     \/ Service!Close(c)
                     \/ \E n \in 1 .. MaxSent : Service!Echo(c, n)
               \/ \E S \in SUBSET Conns : \E lossy \in BOOLEAN :
                     Service!Break(S, lossy)
        PROVE  sent' = sent /\ got' = got
    BY <2>4 DEF Service!Begin, Service!Finish, Service!Close, Service!Echo,
                Service!Break
  <2> QED
    BY <2>1, <2>2, <2>3, <2>4 DEF Service!Next
<1> QED
  BY <1>1, <1>2 DEF PromiseInv

\* A client of any implementation of the echo service has at any time the
\* beginning of what it sent, and after a close all of it is on its way: what
\* the theorems named Implements mean for a client.
THEOREM ServiceKeeps == ImplementsEchoService => []EchoPromised
<1>1. PromiseInv => EchoPromised
  <2>1. \A c \in Conns : Kept(c) <=>
          /\ sent[c] \in Nat
          /\ \E n \in 0 .. sent[c] : \E m \in 0 .. n :
                /\ got[c] \o sndq[c] = Service!Stream(n)
                /\ got[c] = Service!Stream(m)
          /\ PhaseOf(c) = "closed" =>
                got[c] \o sndq[c] = Service!Stream(sent[c])
    BY DEF Kept, Put
  <2> QED
    BY <2>1 DEF PromiseInv, EchoPromised, Service!Promised
<1> QED
  BY <1>1, PromiseInit, PromiseStep, PTL
     DEF ImplementsEchoService, Service!Spec
=============================================================================
