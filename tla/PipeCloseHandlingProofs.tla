---------------------- MODULE PipeCloseHandlingProofs ----------------------
(***************************************************************************)
(* What an end of file and an EPIPE tell about the others, for any number  *)
(* of painters and numbers and any capacity of the pipe.                   *)
(***************************************************************************)
EXTENDS MCPipeCloseHandling, SequenceTheorems, TLAPS

\* Who holds which end can be read off the stages.
Descriptors ==
    /\ DOMAIN stage = Process
    /\ readers \subseteq Process /\ writers \subseteq Process
    /\ stage[Generator] \in {"fork", "write", "deserted"} \cup Ended
    /\ Generator \in readers <=> stage[Generator] = "fork"
    /\ Generator \in writers <=>
          stage[Generator] \in {"fork", "write", "deserted"}
    /\ \A p \in Painter :
          /\ stage[p] \in {"none", "forked", "read", "paint", "done", "killed"}
          /\ p \in readers <=> stage[p] \in {"forked", "read", "paint"}
          /\ p \in writers <=> stage[p] = "forked"

\* The generator is a process, and none of the painters.
LEMMA GeneratorApart == Generator \notin Painter /\ Generator \in Process
  BY DEF Generator, Painter, Process

\* The child of a fork is a painter.
LEMMA NextPainter ==
    ASSUME Fork, forked \in Nat
    PROVE  forked + 1 \in Painter /\ forked + 1 # Generator
  BY PipeAssumption DEF Fork, Painter, Generator

\* No child at the beginning.
LEMMA ForkedInit == Init => forked \in Nat
  BY DEF Init

\* A fork counts one more.
LEMMA ForkedStep == forked \in Nat /\ [Next]_vars => (forked \in Nat)'
  BY DEF Next, Main, Paints, Fork, ForkError, CloseReadEnd, Write,
         WriteDeserted, Produced, Quit, CloseWriteEnd, Read, ReadEnd, Paint,
         Kill, vars, procVars

\* Only main has the two ends at the beginning.
LEMMA DescriptorsInit == Init => Descriptors
  BY GeneratorApart DEF Init, Descriptors, Process

\* Who closes an end moves to the stage that is without it.
LEMMA DescriptorsStep ==
    forked \in Nat /\ Descriptors /\ [Next]_vars => Descriptors'
<1> SUFFICES ASSUME forked \in Nat, Descriptors, [Next]_vars
             PROVE  Descriptors'
  OBVIOUS
<1> USE GeneratorApart DEF Descriptors, Goto, Leave, procVars, fdVars,
        dataVars, Ended, Process
<1>1. CASE Fork
  BY <1>1, NextPainter DEF Fork
<1>2. CASE ForkError
  BY <1>2 DEF ForkError
<1>3. CASE CloseReadEnd
  BY <1>3 DEF CloseReadEnd
<1>4. CASE Write
  BY <1>4 DEF Write
<1>5. CASE WriteDeserted
  BY <1>5 DEF WriteDeserted
<1>6. CASE Produced
  BY <1>6 DEF Produced
<1>7. CASE Quit
  BY <1>7 DEF Quit
<1>8. ASSUME NEW p \in Painter, CloseWriteEnd(p) PROVE Descriptors'
  BY <1>8 DEF CloseWriteEnd
<1>9. ASSUME NEW p \in Painter, Read(p) PROVE Descriptors'
  BY <1>9 DEF Read
<1>10. ASSUME NEW p \in Painter, ReadEnd(p) PROVE Descriptors'
  BY <1>10 DEF ReadEnd
<1>11. ASSUME NEW p \in Painter, Paint(p) PROVE Descriptors'
  BY <1>11 DEF Paint
<1>12. ASSUME NEW p \in Process, Kill(p) PROVE Descriptors'
  BY <1>12 DEF Kill, Gone
<1>13. CASE UNCHANGED vars
  BY <1>13 DEF vars
<1> QED
  BY <1>1, <1>2, <1>3, <1>4, <1>5, <1>6, <1>7, <1>8, <1>9, <1>10, <1>11,
     <1>12, <1>13 DEF Next, Main, Paints

\* Nobody has said anything at the beginning.
LEMMA PeersGoneInit == Init => PeersGone
  BY GeneratorApart DEF Init, PeersGone, PaintersDead, Process

\* Who leaves says what is so, and nothing that comes later makes it untrue.
LEMMA PeersGoneStep ==
    forked \in Nat /\ Descriptors /\ PeersGone /\ [Next]_vars
        => PeersGone'
<1> SUFFICES ASSUME forked \in Nat, Descriptors, PeersGone, [Next]_vars
             PROVE  PeersGone'
  OBVIOUS
<1> USE GeneratorApart DEF Descriptors, PeersGone, PaintersDead, Goto,
        Leave, procVars, fdVars, dataVars, Ended, Process
<1>1. CASE Fork
  BY <1>1, NextPainter DEF Fork
<1>2. CASE ForkError \/ CloseReadEnd
  BY <1>2 DEF ForkError, CloseReadEnd
<1>3. CASE Write
  BY <1>3 DEF Write
<1>4. CASE WriteDeserted
  BY <1>4 DEF WriteDeserted
<1>5. CASE Produced \/ Quit
  BY <1>5 DEF Produced, Quit
<1>6. ASSUME NEW p \in Painter, CloseWriteEnd(p) \/ Paint(p)
      PROVE  PeersGone'
  BY <1>6 DEF CloseWriteEnd, Paint
<1>7. ASSUME NEW p \in Painter, Read(p) PROVE PeersGone'
  BY <1>7 DEF Read
<1>8. ASSUME NEW p \in Painter, ReadEnd(p) PROVE PeersGone'
  BY <1>8 DEF ReadEnd
<1>9. ASSUME NEW p \in Process, Kill(p) PROVE PeersGone'
  BY <1>9 DEF Kill, Gone
<1>10. CASE UNCHANGED vars
  BY <1>10 DEF vars
<1> QED
  BY <1>1, <1>2, <1>3, <1>4, <1>5, <1>6, <1>7, <1>8, <1>9, <1>10
  DEF Next, Main, Paints

\* EPIPE means that every painter that was made is killed, an end of file that
\* nobody will write any more and that the pipe is empty, and main's last line
\* that all numbers are written or all painters killed: not what that line
\* says, see ProducedTrue.  However the processes are scheduled or terminated
\* and whichever forks fail.
THEOREM SaysPeersGone == Spec => []PeersGone
  BY ForkedInit, ForkedStep, DescriptorsInit, DescriptorsStep, PeersGoneInit,
     PeersGoneStep, PTL DEF Spec

-----------------------------------------------------------------------------
(* Where the numbers are                                                   *)

Types ==
    /\ forked \in 0 .. Painters
    /\ \A p \in Painter : p > forked => stage[p] = "none"
    /\ pipe \in Seq(Numbers) /\ Len(pipe) <= Capacity
    /\ num \in 0 .. Limit
    /\ number \in [Painter -> Nat]
    /\ painted \in [Painter -> Seq(Numbers)]
    /\ \A p \in Painter : stage[p] = "paint" => number[p] \in Numbers

\* Painter p has painted n, or is about to.
Has(p, n) ==
    \/ \E i \in 1 .. Len(painted[p]) : painted[p][i] = n
    \/ stage[p] = "paint" /\ number[p] = n

\* The oldest number in the pipe, or the next one to be written.
Oldest == num - Len(pipe)

\* The pipe has the last numbers written, in order.
InPipe ==
    /\ Oldest \in Nat
    /\ \A i \in 1 .. Len(pipe) : pipe[i] = Oldest + i - 1

\* A painter has older numbers, in order.
InOrder(p) ==
    /\ \A i, j \in 1 .. Len(painted[p]) :
          i < j => painted[p][i] < painted[p][j]
    /\ \A n : Has(p, n) => n < Oldest
    /\ stage[p] = "paint" =>
          \A i \in 1 .. Len(painted[p]) : painted[p][i] < number[p]

\* No two have the same, and all of them are somewhere.
Shared ==
    /\ \A p, q \in Painter : \A n : Has(p, n) /\ Has(q, n) => p = q
    /\ \A n \in 0 .. Oldest - 1 : \E p \in Painter :
          Has(p, n) \/ (stage[p] = "killed" /\ number[p] = n)

Account == Types /\ InPipe /\ Shared /\ \A p \in Painter : InOrder(p)

\* An empty pipe and painters that are not there account for no number.
LEMMA AccountEmpty ==
    ASSUME pipe = <<>>, num = 0, forked = 0, Len(pipe) = 0,
           number = [p \in Painter |-> Limit],
           painted = [p \in Painter |-> <<>>],
           \A p \in Painter : stage[p] = "none"
    PROVE  Account
<1>1. /\ pipe = <<>> /\ num = 0 /\ forked = 0 /\ Len(pipe) = 0
      /\ \A p \in Painter : painted[p] = <<>> /\ stage[p] = "none"
  OBVIOUS
<1>2. Types
  BY <1>1, PipeAssumption DEF Types
<1>3. Oldest = 0 /\ \A p \in Painter : \A n : ~Has(p, n)
  <2>1. Oldest = 0
    <3>1. num = 0 /\ Len(pipe) = 0
      BY <1>1
    <3> QED
      BY ONLY <3>1 DEF Oldest
  <2>2. ASSUME NEW p \in Painter, NEW n PROVE ~Has(p, n)
    <3>1. Len(painted[p]) = 0 /\ stage[p] = "none"
      BY <1>1
    <3> QED
      BY <3>1 DEF Has
  <2> QED
    BY <2>1, <2>2
<1>4. InPipe
  BY <1>1, <1>3 DEF InPipe
<1>5. Shared
  BY <1>3 DEF Shared
<1>6. \A p \in Painter : InOrder(p)
  BY <1>1, <1>3 DEF InOrder
<1> QED
  BY <1>2, <1>4, <1>5, <1>6 DEF Account

\* Which is how the program begins.
LEMMA AccountInit == Init => Account
  BY AccountEmpty, GeneratorApart DEF Init, Process

\* A step by which no number moves: at most, a painter is killed with one.
LEMMA NothingMoves ==
    ASSUME Account, Types', UNCHANGED dataVars,
           \A p \in Painter : stage'[p] = "paint" => stage[p] = "paint",
           \A p \in Painter :
              stage[p] = "paint" => stage'[p] \in {"paint", "killed"},
           \A p \in Painter : stage[p] = "killed" => stage'[p] = "killed"
    PROVE  Account'
<1>1. /\ Oldest' = Oldest
      /\ \A p \in Painter : \A n : Has(p, n)' => Has(p, n)
      /\ \A p \in Painter : \A n : Has(p, n) =>
            Has(p, n)' \/ (stage'[p] = "killed" /\ number'[p] = n)
  BY DEF Oldest, Has, dataVars
<1>2. InPipe'
  BY <1>1 DEF Account, InPipe, dataVars
<1>3. Shared'
  <2>1. \A p, q \in Painter : \A n : Has(p, n)' /\ Has(q, n)' => p = q
    BY <1>1 DEF Account, Shared
  <2>2. ASSUME NEW n \in 0 .. Oldest - 1
        PROVE  \E p \in Painter :
                  Has(p, n)' \/ (stage'[p] = "killed" /\ number'[p] = n)
    <3>1. PICK p \in Painter :
            Has(p, n) \/ (stage[p] = "killed" /\ number[p] = n)
      BY DEF Account, Shared
    <3> QED
      BY <1>1, <3>1 DEF dataVars
  <2> QED
    BY <1>1, <2>1, <2>2 DEF Shared
<1>4. \A p \in Painter : InOrder(p)'
  BY <1>1 DEF Account, InOrder, dataVars
<1> QED
  BY <1>2, <1>3, <1>4 DEF Account

\* The number written is the next one, and goes to the end of the pipe.
LEMMA AccountWrite ==
    ASSUME Account, num < Limit, Len(pipe) < Capacity,
           pipe' = Append(pipe, num), num' = num + 1,
           UNCHANGED <<forked, number, painted>>,
           \A p \in Painter : stage'[p] = stage[p]
    PROVE  Account'
<1>1. /\ pipe \in Seq(Numbers) /\ num \in 0 .. Limit /\ num < Limit
      /\ Limit \in Nat /\ Capacity \in Nat
      /\ Len(pipe) \in Nat /\ Len(pipe) < Capacity
  BY PipeAssumption, LenProperties DEF Account, Types
<1>2. /\ pipe' = Append(pipe, num) /\ num' = num + 1
      /\ UNCHANGED <<forked, number, painted>>
      /\ \A p \in Painter : stage'[p] = stage[p]
  OBVIOUS
<1>3. num \in Numbers /\ num' \in 0 .. Limit
  BY <1>1, <1>2 DEF Numbers
<1>4. /\ pipe' \in Seq(Numbers) /\ Len(pipe') = Len(pipe) + 1
      /\ \A i \in 1 .. Len(pipe) : pipe'[i] = pipe[i]
      /\ pipe'[Len(pipe) + 1] = num
  BY <1>1, <1>2, <1>3, AppendProperties
<1>5. Types'
  <2>1. Len(pipe') <= Capacity
    BY <1>1, <1>4
  <2>2. \A p \in Painter : /\ p > forked' => stage'[p] = "none"
                          /\ stage'[p] = "paint" => number'[p] \in Numbers
    BY <1>2 DEF Account, Types
  <2> QED
    BY <1>2, <1>3, <1>4, <2>1, <2>2 DEF Account, Types
<1>6. Oldest' = Oldest /\ Oldest \in Nat
  BY <1>1, <1>2, <1>4 DEF Oldest, Account, InPipe
<1>7. \A p \in Painter : \A n : Has(p, n)' <=> Has(p, n)
  BY <1>2 DEF Has
<1>8. InPipe'
  <2>1. ASSUME NEW i \in 1 .. Len(pipe) + 1 PROVE pipe'[i] = Oldest + i - 1
    <3>1. CASE i = Len(pipe) + 1
      BY <1>1, <1>4, <3>1 DEF Oldest
    <3>2. CASE i # Len(pipe) + 1
      BY <1>1, <1>4, <3>2 DEF Account, InPipe
    <3> QED
      BY <3>1, <3>2
  <2> QED
    BY <1>4, <1>6, <2>1 DEF InPipe
<1>9. Shared'
  BY <1>2, <1>6, <1>7 DEF Account, Shared
<1>10. \A p \in Painter : InOrder(p)'
  BY <1>2, <1>6, <1>7 DEF Account, InOrder
<1> QED
  BY <1>5, <1>8, <1>9, <1>10 DEF Account

\* A painter takes the oldest number, which nobody else then has.
LEMMA AccountRead ==
    ASSUME Account, DOMAIN stage = Process, NEW p \in Painter, Read(p)
    PROVE  Account'
<1> DEFINE n0 == Head(pipe)
<1>1. /\ pipe \in Seq(Numbers) /\ pipe # <<>> /\ Len(pipe) \in Nat
      /\ num \in Nat /\ Len(pipe) # 0
  BY EmptySeq, LenProperties DEF Read, Account, Types
<1>2. /\ Tail(pipe) \in Seq(Numbers) /\ Len(Tail(pipe)) = Len(pipe) - 1
      /\ \A i \in 1 .. Len(pipe) - 1 : Tail(pipe)[i] = pipe[i + 1]
      /\ n0 = pipe[1] /\ n0 \in Numbers
  BY <1>1, HeadTailProperties
<1>3. Oldest \in Nat /\ n0 = Oldest
  <2>1. 1 \in 1 .. Len(pipe)
    BY <1>1
  <2>2. Oldest \in Nat /\ pipe[1] = Oldest + 1 - 1
    BY <2>1 DEF Account, InPipe
  <2> QED
    BY <1>2, <2>2
<1>4. /\ pipe' = Tail(pipe) /\ number' = [number EXCEPT ![p] = n0]
      /\ stage[p] = "read" /\ stage' = [stage EXCEPT ![p] = "paint"]
      /\ UNCHANGED <<forked, num, painted>>
  BY DEF Read, Goto
<1> HIDE DEF n0
<1>5. /\ stage'[p] = "paint" /\ number'[p] = n0
      /\ \A q \in Painter : q # p => /\ stage'[q] = stage[q]
                                     /\ number'[q] = number[q]
  BY <1>4 DEF Account, Types, Process
<1>6. n0 \in Nat /\ \A n \in Numbers : n \in Nat
  BY <1>2, PipeAssumption DEF Numbers
<1>7. Types'
  <2>1. number' \in [Painter -> Nat]
    BY <1>4, <1>6 DEF Account, Types
  <2>2. \A q \in Painter : stage'[q] = "paint" => number'[q] \in Numbers
    BY <1>2, <1>5 DEF Account, Types
  <2>3. \A q \in Painter : q > forked => stage'[q] = "none"
    BY <1>4, <1>5 DEF Account, Types
  <2>4. Len(pipe') <= Capacity
    BY <1>1, <1>2, <1>4, PipeAssumption DEF Account, Types
  <2> QED
    BY <1>2, <1>4, <2>1, <2>2, <2>3, <2>4 DEF Account, Types
<1>8. Oldest' = Oldest + 1
  BY <1>1, <1>2, <1>4 DEF Oldest
<1>9. InPipe'
  <2>1. ASSUME NEW i \in 1 .. Len(pipe) - 1
        PROVE  Tail(pipe)[i] = Oldest + 1 + i - 1
    <3>1. i + 1 \in 1 .. Len(pipe) /\ Tail(pipe)[i] = pipe[i + 1]
      BY <1>1, <1>2
    <3>2. pipe[i + 1] = Oldest + (i + 1) - 1
      BY <3>1 DEF Account, InPipe
    <3> QED
      BY <1>3, <3>1, <3>2
  <2> QED
    BY <1>2, <1>3, <1>4, <1>8, <2>1 DEF InPipe
<1>10. \A q \in Painter : \A n : Has(q, n)' <=> Has(q, n) \/ (q = p /\ n = n0)
  BY <1>4, <1>5 DEF Has
<1>11. \A q \in Painter : \A n : Has(q, n) => n < Oldest
  BY DEF Account, InOrder
<1>12. Shared'
  <2>1. ASSUME NEW q \in Painter, NEW u \in Painter, NEW n,
               Has(q, n)', Has(u, n)'
        PROVE  q = u
    <3>1. n = n0 => ~Has(q, n) /\ ~Has(u, n)
      BY <1>3, <1>11
    <3> QED
      BY <1>10, <2>1, <3>1 DEF Account, Shared
  <2>2. ASSUME NEW n \in 0 .. Oldest' - 1
        PROVE  \E q \in Painter :
                  Has(q, n)' \/ (stage'[q] = "killed" /\ number'[q] = n)
    <3>1. CASE n = n0
      BY <1>10, <3>1
    <3>2. CASE n # n0
      <4>1. n \in 0 .. Oldest - 1
        BY <1>3, <1>8, <3>2
      <4>2. PICK q \in Painter :
              Has(q, n) \/ (stage[q] = "killed" /\ number[q] = n)
        BY <4>1 DEF Account, Shared
      <4> QED
        BY <1>4, <1>5, <1>10, <4>2
    <3> QED
      BY <3>1, <3>2
  <2> QED
    BY <2>1, <2>2 DEF Shared
<1>13. ASSUME NEW q \in Painter PROVE InOrder(q)'
  <2>1. \A n : Has(q, n)' => n < Oldest'
    <3>1. ASSUME NEW n, Has(q, n), n < Oldest PROVE n < Oldest + 1
      <4>1. n \in Nat
        <5>1. \A i \in 1 .. Len(painted[q]) : painted[q][i] \in Nat
          BY <1>6, ElementOfSeq DEF Account, Types
        <5> QED
          BY <3>1, <5>1 DEF Has, Account, Types
      <4> QED
        BY <1>3, <3>1, <4>1
    <3>2. n0 < Oldest + 1
      BY <1>3
    <3> QED
      BY <1>8, <1>10, <1>11, <3>1, <3>2
  <2>2. stage'[q] = "paint" =>
          \A i \in 1 .. Len(painted[q]) : painted[q][i] < number'[q]
    <3>1. \A i \in 1 .. Len(painted[q]) : painted[q][i] < Oldest
      BY <1>11 DEF Has
    <3> QED
      BY <1>3, <1>5, <3>1 DEF Account, InOrder
  <2> QED
    BY <1>4, <2>1, <2>2 DEF Account, InOrder
<1> QED
  BY <1>7, <1>9, <1>12, <1>13 DEF Account

\* The number painted is the one in hand, and later than those before.
LEMMA AccountPaint ==
    ASSUME Account, DOMAIN stage = Process, NEW p \in Painter, Paint(p)
    PROVE  Account'
<1> DEFINE n0 == number[p]
<1> DEFINE s0 == painted[p]
<1>1. /\ s0 \in Seq(Numbers) /\ n0 \in Numbers /\ Len(s0) \in Nat
      /\ stage[p] = "paint"
  BY LenProperties DEF Paint, Account, Types
<1>2. /\ Append(s0, n0) \in Seq(Numbers)
      /\ Len(Append(s0, n0)) = Len(s0) + 1
      /\ \A i \in 1 .. Len(s0) : Append(s0, n0)[i] = s0[i]
      /\ Append(s0, n0)[Len(s0) + 1] = n0
  BY <1>1, AppendProperties
<1>3. /\ painted' = [painted EXCEPT ![p] = Append(s0, n0)]
      /\ stage' = [stage EXCEPT ![p] = "read"]
      /\ UNCHANGED <<forked, pipe, num, number>>
  BY DEF Paint, Goto
<1>4. /\ stage'[p] = "read" /\ painted'[p] = Append(s0, n0)
      /\ \A q \in Painter : q # p => /\ stage'[q] = stage[q]
                                     /\ painted'[q] = painted[q]
  BY <1>3 DEF Account, Types, Process
<1>5. Types'
  <2>1. painted' \in [Painter -> Seq(Numbers)]
    BY <1>2, <1>3 DEF Account, Types
  <2>2. \A q \in Painter : q > forked => stage'[q] = "none"
    BY <1>1, <1>4 DEF Account, Types
  <2>3. \A q \in Painter : stage'[q] = "paint" => number'[q] \in Numbers
    BY <1>3, <1>4 DEF Account, Types
  <2> QED
    BY <1>3, <2>1, <2>2, <2>3 DEF Account, Types
<1>6. Oldest' = Oldest
  BY <1>3 DEF Oldest
<1>7. \A n : Has(p, n)' <=> Has(p, n)
  <2>1. ASSUME NEW n
        PROVE  (\E i \in 1 .. Len(s0) + 1 : Append(s0, n0)[i] = n)
                 <=> (\E i \in 1 .. Len(s0) : s0[i] = n) \/ n0 = n
    BY <1>1, <1>2
  <2> QED
    BY <1>1, <1>2, <1>4, <2>1, SMTT(40) DEF Has
<1>8. \A q \in Painter : \A n : Has(q, n)' <=> Has(q, n)
  <2>1. ASSUME NEW q \in Painter, q # p, NEW n PROVE Has(q, n)' <=> Has(q, n)
    <3>1. /\ stage'[q] = stage[q] /\ painted'[q] = painted[q]
          /\ number'[q] = number[q]
      BY <1>3, <1>4, <2>1
    <3> QED
      BY ONLY <3>1 DEF Has
  <2> QED
    BY <1>7, <2>1
<1>9. InPipe'
  BY <1>3, <1>6 DEF Account, InPipe
<1>10. Shared'
  <2>1. \A q \in Painter : stage[q] = "killed" => stage'[q] = "killed"
    BY <1>1, <1>4
  <2> QED
    BY <1>3, <1>6, <1>8, <2>1 DEF Account, Shared
<1>11. ASSUME NEW q \in Painter PROVE InOrder(q)'
  <2>1. CASE q = p
    <3>1. ASSUME NEW i \in 1 .. Len(s0) + 1, NEW j \in 1 .. Len(s0) + 1, i < j
          PROVE  Append(s0, n0)[i] < Append(s0, n0)[j]
      <4>1. i \in 1 .. Len(s0) /\ Append(s0, n0)[i] = s0[i]
        BY <1>1, <1>2, <3>1
      <4>2. CASE j = Len(s0) + 1
        BY <1>1, <1>2, <4>1, <4>2 DEF Account, InOrder
      <4>3. CASE j # Len(s0) + 1
        <5>1. j \in 1 .. Len(s0) /\ Append(s0, n0)[j] = s0[j]
          BY <1>1, <1>2, <4>3
        <5> QED
          BY <3>1, <4>1, <5>1 DEF Account, InOrder
      <4> QED
        BY <4>2, <4>3
    <3>2. /\ \A n : Has(q, n)' => n < Oldest'
          /\ stage'[q] # "paint" /\ painted'[q] = Append(s0, n0)
      BY <1>4, <1>6, <1>8, <2>1 DEF Account, InOrder
    <3> QED
      BY ONLY <1>2, <3>1, <3>2 DEF InOrder
  <2>2. CASE q # p
    BY <1>3, <1>4, <1>6, <1>8, <2>2 DEF Account, InOrder
  <2> QED
    BY <2>1, <2>2
<1> QED
  BY <1>5, <1>9, <1>10, <1>11 DEF Account

\* Every step of the processes.
LEMMA AccountStep == Account /\ Descriptors /\ [Next]_vars => Account'
<1> SUFFICES ASSUME Account, Descriptors, [Next]_vars PROVE Account'
  OBVIOUS
<1> USE GeneratorApart DEF Goto, Leave, procVars, fdVars
<1>1. CASE Fork
  <2>1. /\ forked + 1 \in Painter /\ forked + 1 > forked
        /\ forked' = forked + 1 /\ forked' \in 0 .. Painters
    BY <1>1, PipeAssumption DEF Fork, Account, Types, Painter
  <2>2. /\ stage[forked + 1] = "none" /\ stage'[forked + 1] = "forked"
        /\ \A p \in Painter : p # forked + 1 => stage'[p] = stage[p]
        /\ UNCHANGED dataVars
    BY <1>1, <2>1 DEF Fork, Account, Types, Descriptors, Process
  <2>3. ASSUME NEW p \in Painter, p > forked' PROVE stage'[p] = "none"
    <3>1. p > forked /\ p # forked + 1
      BY <2>1, <2>3 DEF Painter, Account, Types
    <3> QED
      BY <2>2, <3>1 DEF Account, Types
  <2>4. Types'
    BY <2>1, <2>2, <2>3 DEF Account, Types, dataVars
  <2> QED
    BY <2>2, <2>4, NothingMoves
<1>2. CASE ForkError
  <2>1. Types' /\ UNCHANGED <<stage, dataVars>>
    BY <1>2, PipeAssumption DEF ForkError, Account, Types, Painter, dataVars
  <2> QED
    BY <2>1, NothingMoves
<1>3. CASE CloseReadEnd \/ WriteDeserted \/ Produced \/ Quit
           \/ Kill(Generator) \/ UNCHANGED vars
  <2>1. /\ \A p \in Painter : stage'[p] = stage[p]
        /\ forked' = forked /\ UNCHANGED dataVars
    BY <1>3 DEF CloseReadEnd, WriteDeserted, Produced, Quit, Kill, vars,
           Descriptors, Process
  <2>2. Types'
    BY <2>1 DEF Account, Types, dataVars
  <2> QED
    BY <2>1, <2>2, NothingMoves
<1>4. CASE Write
  BY <1>4, AccountWrite DEF Write
<1>5. ASSUME NEW p \in Painter, CloseWriteEnd(p) \/ ReadEnd(p) \/ Kill(p)
      PROVE  Account'
  <2>1. /\ \A q \in Painter : q # p => stage'[q] = stage[q]
        /\ stage[p] # "none" /\ forked' = forked /\ UNCHANGED dataVars
        /\ stage'[p] \in {"read", "done", "killed"}
        /\ stage[p] \in {"paint", "killed"} => stage'[p] = "killed"
    BY <1>5 DEF CloseWriteEnd, ReadEnd, Kill, Gone, Descriptors, Process
  <2>2. Types'
    BY <2>1 DEF Account, Types, dataVars
  <2> QED
    BY <2>1, <2>2, NothingMoves
<1>6. ASSUME NEW p \in Painter, Read(p) PROVE Account'
  BY <1>6, AccountRead DEF Descriptors
<1>7. ASSUME NEW p \in Painter, Paint(p) PROVE Account'
  BY <1>7, AccountPaint DEF Descriptors
<1> QED
  BY <1>1, <1>2, <1>3, <1>4, <1>5, <1>6, <1>7
  DEF Next, Main, Paints, Process

\* The invariant contains the types.
LEMMA TypesHold == Account /\ Descriptors => TypeOK
  BY DEF Account, Types, Descriptors, TypeOK, Ended

\* What a painter holds, as one sequence, is what it has, in order.
LEMMA HoldsSorted ==
    ASSUME Account, NEW p \in Painter
    PROVE  /\ \A n : n \in ToSet(Holds(p)) <=> Has(p, n)
           /\ \A i, j \in 1 .. Len(Holds(p)) :
                 i < j => Holds(p)[i] < Holds(p)[j]
<1> DEFINE s0 == painted[p]
<1>1. s0 \in Seq(Numbers) /\ Len(s0) \in Nat /\ DOMAIN s0 = 1 .. Len(s0)
  BY LenProperties DEF Account, Types
<1>2. CASE stage[p] # "paint"
  <2>1. Holds(p) = s0
    BY <1>1, <1>2, ConcatEmptySeq DEF Holds
  <2> QED
    BY <1>1, <1>2, <2>1 DEF Has, ToSet, Account, InOrder
<1>3. CASE stage[p] = "paint"
  <2> DEFINE n0 == number[p]
  <2> DEFINE s1 == s0 \o <<n0>>
  <2>1. Holds(p) = s1
    BY <1>3 DEF Holds
  <2>2. n0 \in Numbers
    BY <1>3 DEF Account, Types
  <2>3. /\ <<n0>> \in Seq(Numbers) /\ Len(<<n0>>) = 1 /\ <<n0>>[1] = n0
    BY <2>2
  <2>4. s1 \in Seq(Numbers) /\ Len(s1) = Len(s0) + 1
    BY <1>1, <2>3, ConcatProperties
  <2>5. \A i \in 1 .. Len(s0) : s1[i] = s0[i]
    BY <1>1, <2>3, ConcatProperties
  <2>6. s1[Len(s0) + 1] = n0
    BY <1>1, <2>3, ConcatProperties
  <2>7. DOMAIN s1 = 1 .. Len(s0) + 1
    BY <2>4, LenProperties
  <2> HIDE DEF s1
  <2>8. ASSUME NEW n
        PROVE  (\E i \in 1 .. Len(s0) + 1 : s1[i] = n)
                 <=> (\E i \in 1 .. Len(s0) : s0[i] = n) \/ n0 = n
    BY <1>1, <2>5, <2>6
  <2>9. \A n : n \in ToSet(s1) <=> Has(p, n)
    BY <1>3, <2>7, <2>8 DEF Has, ToSet
  <2>10. ASSUME NEW i \in 1 .. Len(s0) + 1, NEW j \in 1 .. Len(s0) + 1, i < j
         PROVE  s1[i] < s1[j]
    <3>1. i \in 1 .. Len(s0) /\ s1[i] = s0[i]
      BY <1>1, <2>5, <2>10
    <3>2. CASE j = Len(s0) + 1
      BY <1>3, <2>6, <3>1, <3>2 DEF Account, InOrder
    <3>3. CASE j # Len(s0) + 1
      <4>1. j \in 1 .. Len(s0) /\ s1[j] = s0[j]
        BY <1>1, <2>5, <3>3
      <4> QED
        BY <2>10, <3>1, <4>1 DEF Account, InOrder
    <3> QED
      BY <3>2, <3>3
  <2> QED
    BY <2>1, <2>4, <2>9, <2>10
<1> QED
  BY <1>2, <1>3

\* The pipe has the numbers from the oldest to the last, in order.
LEMMA PipeSorted ==
    ASSUME Account
    PROVE  /\ \A i, j \in 1 .. Len(pipe) : i < j => pipe[i] < pipe[j]
           /\ \A n : n \in ToSet(pipe) => n \in Nat /\ n >= Oldest
           /\ \A n \in Oldest .. num - 1 : n \in ToSet(pipe)
<1>1. /\ DOMAIN pipe = 1 .. Len(pipe) /\ Len(pipe) \in Nat /\ num \in Nat
      /\ Oldest \in Nat /\ Oldest = num - Len(pipe)
  BY LenProperties DEF Account, Types, InPipe, Oldest
<1>2. \A i \in 1 .. Len(pipe) : pipe[i] = Oldest + i - 1
  BY DEF Account, InPipe
<1>3. \A i, j \in 1 .. Len(pipe) : i < j => pipe[i] < pipe[j]
  BY <1>1, <1>2
<1>4. ASSUME NEW n, n \in ToSet(pipe) PROVE n \in Nat /\ n >= Oldest
  <2>1. PICK i \in 1 .. Len(pipe) : pipe[i] = n
    BY <1>1, <1>4 DEF ToSet
  <2> QED
    BY <1>1, <1>2, <2>1
<1>5. ASSUME NEW n \in Oldest .. num - 1 PROVE n \in ToSet(pipe)
  <2>1. n - Oldest + 1 \in 1 .. Len(pipe)
    BY <1>1
  <2>2. pipe[n - Oldest + 1] = n
    BY <1>1, <1>2, <2>1
  <2> QED
    BY <1>1, <2>1, <2>2 DEF ToSet
<1> QED
  BY <1>3, <1>4, <1>5

\* What the invariant says of the numbers is NumbersAccounted.
LEMMA AccountKeeps == Account /\ TypeOK => NumbersAccounted
<1> SUFFICES ASSUME Account, TypeOK PROVE NumbersAccounted
  OBVIOUS
<1> DEFINE Places == {pipe} \cup {Holds(p) : p \in Painter}
<1> DEFINE missing == (0 .. num - 1) \ UNION {ToSet(s) : s \in Places}
<1>1. TypeOK
  OBVIOUS
<1>2. \A s \in Places : \A i, j \in 1 .. Len(s) : i < j => s[i] < s[j]
  BY HoldsSorted, PipeSorted
<1>3. ASSUME NEW p \in Painter PROVE ToSet(Holds(p)) \cap ToSet(pipe) = {}
  <2> SUFFICES ASSUME NEW n, Has(p, n), n \in ToSet(pipe) PROVE FALSE
    BY HoldsSorted
  <2>1. n \in Nat /\ n >= Oldest /\ n < Oldest /\ Oldest \in Nat
    BY PipeSorted DEF Account, InOrder, InPipe
  <2> QED
    BY <2>1
<1>4. ASSUME NEW p \in Painter, NEW q \in Painter, p # q
      PROVE  ToSet(Holds(p)) \cap ToSet(Holds(q)) = {}
  BY <1>4, HoldsSorted DEF Account, Shared
<1>5. ASSUME NEW n \in missing
      PROVE  \E p \in Painter : stage[p] = "killed" /\ number[p] = n
  <2>1. n \notin ToSet(pipe) /\ \A p \in Painter : ~Has(p, n)
    BY HoldsSorted
  <2>2. n \in 0 .. num - 1 /\ num \in Nat /\ Oldest \in Nat
    BY DEF Account, Types, InPipe
  <2>3. n \in 0 .. Oldest - 1
    <3>1. n \notin Oldest .. num - 1
      BY <2>1, PipeSorted
    <3> QED
      BY <2>2, <3>1
  <2> QED
    BY <2>1, <2>3 DEF Account, Shared
<1> QED
  BY <1>1, <1>2, <1>3, <1>4, <1>5 DEF NumbersAccounted

\* However many painters share the pipe and whichever of them are killed, no
\* number written is painted twice, none passes another on its way to the same
\* painter, and none is lost but with the painter that had read it.
THEOREM NumbersKept == Spec => []NumbersAccounted
  BY ForkedInit, ForkedStep, DescriptorsInit, DescriptorsStep, AccountInit,
     AccountStep, AccountKeeps, TypesHold, PTL DEF Spec

-----------------------------------------------------------------------------
(* Painters that are threads                                               *)

\* One process, whose threads end with it, has the pipe's two ends.
Threaded ==
    /\ DOMAIN stage = Process
    /\ readers = {Generator}
    /\ writers =
         IF stage[Generator] \in {"fork", "write"} THEN {Generator} ELSE {}
    /\ stage[Generator] \in {"fork", "write", "done", "exited", "killed"}
    /\ \A p \in Painter :
          stage[p] \in {"none", "read", "paint", "done", "killed"}

ThreadInv == Threaded /\ Account /\ PeersGone

\* The invariant for threads contains the types.
LEMMA ThreadTypes == Account /\ Threaded => TypeOK
  BY GeneratorApart DEF Account, Types, Threaded, TypeOK, Ended

\* main begins without a thread, and reads the pipe for all of them.
LEMMA ThreadInit ==
    ASSUME Threads!Init, readers = {Generator}
    PROVE  ThreadInv
<1>1. /\ pipe = <<>> /\ num = 0 /\ forked = 0 /\ Len(pipe) = 0
      /\ number = [p \in Painter |-> Limit]
      /\ painted = [p \in Painter |-> <<>>]
      /\ DOMAIN stage = Process /\ stage[Generator] = "fork"
      /\ \A p \in Painter : stage[p] = "none"
      /\ writers = {Generator}
  BY GeneratorApart
     DEF Threads!Init, Threads!Painter, Threads!Generator, Painter, Generator,
         Process
<1>2. Threaded /\ PeersGone
  BY <1>1 DEF Threaded, PeersGone
<1>3. Account
  BY <1>1, AccountEmpty
<1> QED
  BY <1>2, <1>3 DEF ThreadInv

\* The process ends with all its threads.
LEMMA ThreadEnd ==
    ASSUME ThreadInv, NEW s \in {"exited", "killed"}, Threads!End(s),
           UNCHANGED <<readers, dataVars>>,
           forked' \in 0 .. Painters, forked' >= forked
    PROVE  ThreadInv'
<1>1. /\ DOMAIN stage' = Process /\ stage'[Generator] = s
      /\ \A p \in Painter : stage'[p] =
            IF stage[p] \in {"none", "done"} THEN stage[p] ELSE "killed"
      /\ writers' = {}
  BY GeneratorApart
     DEF Threads!End, Threads!Generator, Generator, ThreadInv, Threaded,
         Process
<1>2. Threaded'
  BY <1>1 DEF ThreadInv, Threaded
<1>3. PeersGone'
  BY <1>1 DEF ThreadInv, Threaded, PeersGone, Ended, dataVars
<1>4. Types'
  <2>1. ASSUME NEW p \in Painter, p > forked' PROVE stage'[p] = "none"
    <3>1. p > forked
      BY <2>1 DEF ThreadInv, Account, Types, Painter
    <3> QED
      BY <1>1, <3>1 DEF ThreadInv, Account, Types
  <2> QED
    BY <1>1, <2>1 DEF ThreadInv, Account, Types, dataVars
<1>5. Account'
  BY <1>1, <1>4, NothingMoves DEF ThreadInv
<1> QED
  BY <1>2, <1>3, <1>5 DEF ThreadInv

\* What main does when the painters are threads.
LEMMA ThreadMain ==
    ASSUME ThreadInv, Threads!Main, UNCHANGED readers
    PROVE  ThreadInv'
<1> USE GeneratorApart DEF ThreadInv, Threads!Goto, Threads!Generator,
        Generator
<1>1. CASE Threads!Create
  <2>1. /\ forked + 1 \in Painter /\ forked + 1 > forked
        /\ forked' = forked + 1 /\ forked' \in 0 .. Painters
        /\ stage[Generator] = "fork"
    BY <1>1, PipeAssumption DEF Threads!Create, Account, Types, Painter
  <2>2. /\ stage[forked + 1] = "none" /\ stage'[forked + 1] = "read"
        /\ DOMAIN stage' = Process
        /\ \A p \in Process : p # forked + 1 => stage'[p] = stage[p]
        /\ UNCHANGED <<writers, dataVars>>
    BY <1>1, <2>1
       DEF Threads!Create, Account, Types, Threaded, Process, dataVars
  <2>3. ASSUME NEW p \in Painter, p > forked' PROVE stage'[p] = "none"
    <3>1. p > forked /\ p # forked + 1
      BY <2>1, <2>3 DEF Painter, Account, Types
    <3> QED
      BY <2>2, <3>1 DEF Account, Types, Process
  <2>4. \A p \in Painter : p \in Process /\ p # Generator
    BY DEF Process, Painter
  <2>5. forked + 1 # Generator
    BY <2>1
  <2>6. Types'
    BY <2>1, <2>2, <2>3, <2>4 DEF Account, Types, dataVars
  <2>7. Account'
    BY <2>2, <2>4, <2>6, NothingMoves
  <2>8. Threaded'
    BY <2>2, <2>4, <2>5 DEF Threaded
  <2>9. PeersGone'
    BY <2>1, <2>2, <2>4, <2>5 DEF PeersGone, Threaded, dataVars
  <2> QED
    BY <2>7, <2>8, <2>9
<1>2. CASE Threads!CreateError
  <2>1. /\ forked' \in 0 .. Painters /\ forked' = forked + 1
        /\ forked' >= forked /\ UNCHANGED dataVars
    BY <1>2, PipeAssumption
       DEF Threads!CreateError, Account, Types, dataVars
  <2>2. CASE Threads!End("killed")
    BY <2>1, <2>2, ThreadEnd
  <2>3. CASE UNCHANGED <<stage, writers>>
    <3>1. Types'
      BY <2>1, <2>3, PipeAssumption DEF Account, Types, Painter, dataVars
    <3>2. Account'
      BY <2>1, <2>3, <3>1, NothingMoves
    <3> QED
      BY <2>1, <2>3, <3>2 DEF Threaded, PeersGone, dataVars
  <2> QED
    BY <1>2, <2>2, <2>3 DEF Threads!CreateError
<1>3. CASE Threads!Write
  <2>1. /\ num < Limit /\ Len(pipe) < Capacity
        /\ pipe' = Append(pipe, num) /\ num' = num + 1
        /\ UNCHANGED <<forked, writers, number, painted>>
        /\ DOMAIN stage' = Process /\ stage'[Generator] = "write"
        /\ stage[Generator] \in {"fork", "write"}
        /\ \A p \in Painter : stage'[p] = stage[p]
    BY <1>3 DEF Threads!Write, Threaded, Process
  <2>2. Account'
    BY <2>1, AccountWrite
  <2>3. \A p \in Painter : stage[p] # "done"
    BY <2>1 DEF PeersGone, Ended
  <2> QED
    BY <2>1, <2>2, <2>3 DEF Threaded, PeersGone
<1>4. CASE Threads!WriteDone
  <2>1. /\ DOMAIN stage' = Process /\ stage'[Generator] = "done"
        /\ writers' = {} /\ UNCHANGED <<forked, dataVars>>
        /\ \A p \in Painter : stage'[p] = stage[p]
    BY <1>4 DEF Threads!WriteDone, Threaded, Process, dataVars
  <2>2. Types'
    BY <2>1 DEF Account, Types, dataVars
  <2>3. Account'
    BY <2>1, <2>2, NothingMoves
  <2> QED
    BY <2>1, <2>3 DEF Threaded, PeersGone, Ended, dataVars
<1> QED
  BY <1>1, <1>2, <1>3, <1>4 DEF Threads!Main

\* A thread's steps are those of a painter that is a process.
LEMMA ThreadPaints ==
    ASSUME ThreadInv, NEW p \in Painter, Threads!Paints(p), UNCHANGED readers
    PROVE  ThreadInv'
<1> USE GeneratorApart DEF ThreadInv, Threads!Goto, Goto, Threaded, Process
<1>0. stage[p] \in {"read", "paint"} /\ stage[Generator] = "done"
        => num = Limit
  BY DEF PeersGone, PaintersDead
<1>1. CASE Threads!Read(p)
  <2>1. Read(p)
    BY <1>1 DEF Threads!Read, Read, fdVars
  <2>2. Account'
    BY <2>1, AccountRead
  <2> QED
    BY <1>0, <2>1, <2>2 DEF Read, PeersGone, fdVars
<1>2. CASE Threads!Paint(p)
  <2>1. Paint(p)
    BY <1>2 DEF Threads!Paint, Paint, fdVars
  <2>2. Account'
    BY <2>1, AccountPaint
  <2> QED
    BY <1>0, <2>1, <2>2 DEF Paint, PeersGone, fdVars
<1>3. CASE Threads!ReadEnd(p)
  <2>1. /\ stage[p] = "read" /\ pipe = <<>> /\ writers = {}
        /\ stage' = [stage EXCEPT ![p] = "done"]
        /\ UNCHANGED <<forked, writers, dataVars>>
    BY <1>3 DEF Threads!ReadEnd, dataVars
  <2>2. stage[Generator] \in Ended /\ stage'[Generator] = stage[Generator]
    BY <2>1 DEF Ended
  <2>3. Types'
    BY <2>1 DEF Account, Types, dataVars
  <2>4. Account'
    BY <2>1, <2>3, NothingMoves
  <2>5. Threaded'
    BY <2>1, <2>2
  <2>6. PeersGone'
    BY <1>0, <2>1, <2>2 DEF PeersGone, dataVars
  <2> QED
    BY <2>4, <2>5, <2>6
<1> QED
  BY <1>1, <1>2, <1>3 DEF Threads!Paints

\* Every step of main, its threads and who ends their process.
LEMMA ThreadStep ==
    ASSUME ThreadInv, UNCHANGED readers,
           \/ Threads!Main \/ Threads!Quit \/ Threads!Kill
           \/ \E p \in Painter : Threads!Paints(p)
    PROVE  ThreadInv'
<1>1. CASE Threads!Quit \/ Threads!Kill
  <2>1. UNCHANGED <<forked, dataVars>>
        /\ (Threads!End("exited") \/ Threads!End("killed"))
    BY <1>1 DEF Threads!Quit, Threads!Kill, dataVars
  <2>2. forked' \in 0 .. Painters /\ forked' >= forked
    BY <2>1 DEF ThreadInv, Account, Types
  <2> QED
    BY <2>1, <2>2, ThreadEnd
<1> QED
  BY <1>1, ThreadMain, ThreadPaints

-----------------------------------------------------------------------------
(* Either program                                                          *)

ForkInv ==
    forked \in Nat /\ Descriptors /\ Account /\ PeersGone

FamilyInv ==
    /\ program \in {"pipe_close_handling", "pipe_queue"}
    /\ program = "pipe_close_handling" => ForkInv
    /\ program = "pipe_queue" => ThreadInv

\* Both programs begin within the invariant of theirs.
LEMMA FamilyInit == MCInit => FamilyInv
<1>1. Init => ForkInv
  BY ForkedInit, DescriptorsInit, AccountInit, PeersGoneInit DEF ForkInv
<1> QED
  BY <1>1, ThreadInit DEF MCInit, FamilyInv

\* Every step of the program that runs.
LEMMA FamilyStep == FamilyInv /\ [MCNext]_mcVars => FamilyInv'
<1> SUFFICES ASSUME FamilyInv, [MCNext]_mcVars PROVE FamilyInv'
  OBVIOUS
<1>1. ForkInv /\ [Next]_vars => ForkInv'
  BY ForkedStep, DescriptorsStep, AccountStep, PeersGoneStep DEF ForkInv
<1>2. ASSUME program = "pipe_close_handling" PROVE FamilyInv'
  <2>1. [Next]_vars /\ program' = program
    BY <1>2 DEF MCNext, MCMain, MCPaints, Forking, Threading, Next, mcVars
  <2> QED
    BY <1>1, <1>2, <2>1 DEF FamilyInv
<1>3. ASSUME program = "pipe_queue" PROVE FamilyInv'
  <2>1. CASE UNCHANGED mcVars
    BY <1>3, <2>1
       DEF mcVars, vars, procVars, fdVars, dataVars, FamilyInv, ThreadInv,
           Threaded, Account, Types, InPipe, Shared, InOrder, Has, Oldest,
           PeersGone, PaintersDead
  <2>2. CASE MCNext
    <3>1. /\ program' = program /\ UNCHANGED readers
          /\ \/ Threads!Main \/ Threads!Quit \/ Threads!Kill
             \/ \E p \in Painter : Threads!Paints(p)
      BY <1>3, <2>2 DEF MCNext, MCMain, MCPaints, Forking, Threading
    <3> QED
      BY <1>3, <3>1, ThreadStep DEF FamilyInv
  <2> QED
    BY <2>1, <2>2
<1> QED
  BY <1>2, <1>3 DEF FamilyInv

\* Of pipe_queue.c as well, whose painters are threads: one finds the end of
\* the numbers only when main writes no more and the pipe is empty.  There is
\* no EPIPE here, main has the read end open itself: its last line is true.
THEOREM FamilyPeersGone == MCSpec => []PeersGone
<1>1. FamilyInv => PeersGone
  BY DEF FamilyInv, ForkInv, ThreadInv
<1> QED
  BY <1>1, FamilyInit, FamilyStep, PTL DEF MCSpec

\* And of its numbers: the end of the process takes along only those that its
\* threads had read, whenever it comes and whichever could not be created.
THEOREM FamilyNumbers == MCSpec => []NumbersAccounted
<1>1. FamilyInv => NumbersAccounted
  BY AccountKeeps, TypesHold, ThreadTypes DEF FamilyInv, ForkInv, ThreadInv
<1> QED
  BY <1>1, FamilyInit, FamilyStep, PTL DEF MCSpec


-----------------------------------------------------------------------------
(* That somebody can always go on                                          *)

\* main writes when it has made all painters, and a thread is killed with its
\* process only.
Endings ==
    /\ stage[Generator] = "write" => forked = Painters
    /\ program = "pipe_queue" =>
          \A p \in Painter :
              stage[p] = "killed" => stage[Generator] \in {"exited", "killed"}

\* The stages of a process that has something to do.
AtWork == {"fork", "write", "deserted", "forked", "read", "paint"}

\* Process p is not waiting: neither for a number, nor for room for one.
CanRun(p) ==
    \/ stage[p] \in {"forked", "paint", "deserted"}
    \/ stage[p] = "read" /\ (pipe # <<>> \/ writers = {})
    \/ /\ stage[p] = "fork"
       /\ forked < Painters \/ program = "pipe_close_handling"
    \/ /\ stage[p] = "write" \/ (stage[p] = "fork" /\ forked = Painters)
       /\ num = Limit \/ readers = {} \/ Len(pipe) < Capacity

\* Not one thread could be created, see GeneratorEnds.
NoneMade ==
    /\ program = "pipe_queue" /\ forked = Painters
    /\ \A p \in Painter : stage[p] = "none"

\* As long as anybody is at work somebody can go on.
NeverStuck ==
    \A w \in Process :
        stage[w] \in AtWork => NoneMade \/ \E p \in Process : CanRun(p)

\* When a painter says "numbers are gone" each one written is painted, or is
\* with a painter that has read it; and all were written, if main said so.
NothingLeft ==
    \A q \in Painter : stage[q] = "done" =>
        /\ stage[Generator] = "done" => num = Limit
        /\ \A n \in 0 .. num - 1 : \E p \in Painter :
              \/ n \in ToSet(painted[p])
              \/ stage[p] \in {"paint", "killed"} /\ number[p] = n

\* Nobody has ended at the beginning.
LEMMA EndingsInit == MCInit => Endings
  BY GeneratorApart
     DEF MCInit, Init, Threads!Init, Threads!Painter, Threads!Generator,
         Endings, Process, Painter, Generator

\* main that forks ends as it says.
LEMMA EndingsFork ==
    ASSUME ForkInv, Endings, [Next]_vars, program # "pipe_queue",
           program' = program
    PROVE  Endings'
<1> USE GeneratorApart DEF ForkInv, Descriptors, Endings, Goto, Leave,
        procVars, fdVars, dataVars, Process
<1>1. CASE Fork
  BY <1>1, NextPainter DEF Fork
<1>2. CASE ForkError \/ CloseReadEnd
  BY <1>2 DEF ForkError, CloseReadEnd
<1>3. CASE Write \/ WriteDeserted
  BY <1>3 DEF Write, WriteDeserted
<1>4. CASE Produced \/ Quit
  BY <1>4 DEF Produced, Quit
<1>5. ASSUME NEW p \in Painter, Paints(p) PROVE Endings'
  BY <1>5 DEF Paints, CloseWriteEnd, Read, ReadEnd, Paint
<1>6. ASSUME NEW p \in Process, Kill(p) PROVE Endings'
  BY <1>6 DEF Kill, Gone
<1>7. CASE UNCHANGED vars
  BY <1>7 DEF vars
<1> QED
  BY <1>1, <1>2, <1>3, <1>4, <1>5, <1>6, <1>7 DEF Next, Main

\* The end of the process is the end of main too.
LEMMA EndingsEnd ==
    ASSUME Threaded, NEW s \in {"exited", "killed"}, Threads!End(s)
    PROVE  Endings'
<1>1. stage'[Generator] = s
  BY GeneratorApart
     DEF Threads!End, Threads!Generator, Generator, Threaded, Process
<1> QED
  BY <1>1 DEF Endings

\* main whose painters are threads ends as it says, and they with it.
LEMMA EndingsThread ==
    ASSUME ThreadInv, Endings, UNCHANGED readers,
           \/ Threads!Main \/ Threads!Quit \/ Threads!Kill
           \/ \E p \in Painter : Threads!Paints(p),
           program' = program
    PROVE  Endings'
<1> USE GeneratorApart DEF ThreadInv, Threaded, Threads!Goto,
        Threads!Generator, Generator, Process
<1>1. CASE Threads!Create
  <2>1. forked + 1 \in Painter /\ forked + 1 # 0
    BY <1>1, PipeAssumption DEF Threads!Create, Account, Types, Painter
  <2> QED
    BY <1>1, <2>1 DEF Threads!Create, Endings
<1>2. CASE Threads!CreateError
  BY <1>2, EndingsEnd DEF Threads!CreateError, Endings
<1>3. CASE Threads!Write \/ Threads!WriteDone
  BY <1>3 DEF Threads!Write, Threads!WriteDone, Endings
<1>4. CASE Threads!Quit \/ Threads!Kill
  BY <1>4, EndingsEnd DEF Threads!Quit, Threads!Kill
<1>5. ASSUME NEW p \in Painter, Threads!Paints(p) PROVE Endings'
  BY <1>5
     DEF Threads!Paints, Threads!Read, Threads!ReadEnd, Threads!Paint, Endings
<1> QED
  BY <1>1, <1>2, <1>3, <1>4, <1>5 DEF Threads!Main

\* Every step of the program that runs.
LEMMA EndingsStep ==
    FamilyInv /\ Endings /\ [MCNext]_mcVars => Endings'
<1> SUFFICES ASSUME FamilyInv, Endings, [MCNext]_mcVars PROVE Endings'
  OBVIOUS
<1>1. CASE UNCHANGED mcVars
  BY <1>1 DEF mcVars, vars, procVars, dataVars, Endings
<1>2. ASSUME MCNext, program = "pipe_close_handling" PROVE Endings'
  <2>1. [Next]_vars /\ program' = program
    BY <1>2 DEF MCNext, MCMain, MCPaints, Forking, Threading, Next
  <2> QED
    BY <1>2, <2>1, EndingsFork DEF FamilyInv
<1>3. ASSUME MCNext, program = "pipe_queue" PROVE Endings'
  <2>1. /\ program' = program /\ UNCHANGED readers
        /\ \/ Threads!Main \/ Threads!Quit \/ Threads!Kill
           \/ \E p \in Painter : Threads!Paints(p)
    BY <1>3 DEF MCNext, MCMain, MCPaints, Forking, Threading
  <2> QED
    BY <1>3, <2>1, EndingsThread DEF FamilyInv
<1> QED
  BY <1>1, <1>2, <1>3 DEF FamilyInv

\* A pipe that is full is not empty.
LEMMA FullPipe ==
    ASSUME Account, ~(Len(pipe) < Capacity)
    PROVE  pipe # <<>>
<1>1. Len(pipe) # 0
  BY PipeAssumption, LenProperties DEF Account, Types
<1> QED
  BY <1>1

\* While a generator waits for room a painter is there to make it, and while
\* a painter waits for a number somebody has the write end.
LEMMA ForkRuns ==
    ASSUME ForkInv, program = "pipe_close_handling",
           NEW w \in Process,
           stage[w] \in AtWork
    PROVE  \E p \in Process : CanRun(p)
<1> USE GeneratorApart DEF ForkInv, AtWork
<1>1. CASE stage[Generator] \in {"fork", "deserted"}
  BY <1>1 DEF CanRun
<1>2. CASE stage[Generator] = "write"
  <2>1. CASE num = Limit \/ readers = {} \/ Len(pipe) < Capacity
    BY <1>2, <2>1 DEF CanRun
  <2>2. CASE ~(num = Limit \/ readers = {} \/ Len(pipe) < Capacity)
    <3>1. PICK p \in readers : p # Generator
      BY <1>2, <2>2 DEF Descriptors
    <3>2. p \in Process /\ stage[p] \in {"forked", "read", "paint"}
      BY <3>1 DEF Descriptors, Process
    <3> QED
      BY <2>2, <3>2, FullPipe DEF CanRun
  <2> QED
    BY <2>1, <2>2
<1>3. CASE stage[Generator] \notin {"fork", "deserted", "write"}
  <2>1. w \in Painter /\ stage[w] \in {"forked", "read", "paint"}
    BY <1>3 DEF Descriptors, Process, Ended
  <2>2. CASE writers = {}
    BY <2>1, <2>2 DEF CanRun
  <2>3. CASE writers # {}
    <3>1. PICK p \in writers : p \in Painter /\ stage[p] = "forked"
      BY <1>3, <2>3 DEF Descriptors, Process
    <3> QED
      BY <3>1 DEF CanRun, Process
  <2> QED
    BY <2>2, <2>3
<1> QED
  BY <1>1, <1>2, <1>3

\* While main waits for room a thread is there to make it, unless none was
\* made: none has left, for the pipe is not empty, and none is killed alone.
LEMMA QueueRuns ==
    ASSUME ThreadInv, Endings, program = "pipe_queue", ~NoneMade,
           NEW w \in Process,
           stage[w] \in AtWork
    PROVE  \E p \in Process : CanRun(p)
<1> USE GeneratorApart DEF ThreadInv, AtWork
<1>1. forked = Painters \/ forked < Painters
  BY PipeAssumption DEF Account, Types
<1>2. CASE stage[Generator] = "fork" /\ forked < Painters
  BY <1>2 DEF CanRun
<1>3. CASE /\ stage[Generator] \in {"fork", "write"}
           /\ ~(stage[Generator] = "fork" /\ forked < Painters)
  <2>1. CASE num = Limit \/ Len(pipe) < Capacity
    BY <1>1, <1>3, <2>1 DEF CanRun
  <2>2. CASE \E p \in Painter : stage[p] \in {"read", "paint"}
                               /\ ~(Len(pipe) < Capacity)
    BY <2>2, FullPipe DEF CanRun, Process
  <2>3. CASE /\ \A p \in Painter : stage[p] \notin {"read", "paint"}
             /\ stage[Generator] \in {"fork", "write"}
    <3>1. \A p \in Painter : stage[p] = "none"
      BY <2>3 DEF Threaded, PeersGone, Endings, Ended
    <3>2. forked = Painters
      BY <1>1, <1>3 DEF Endings
    <3> QED
      BY <3>1, <3>2 DEF NoneMade
  <2> QED
    BY <1>3, <2>1, <2>2, <2>3
<1>4. CASE stage[Generator] \notin {"fork", "write"}
  <2>1. w \in Painter /\ stage[w] \in {"read", "paint"} /\ writers = {}
    BY <1>4 DEF Threaded, Process
  <2> QED
    BY <2>1 DEF CanRun
<1> QED
  BY <1>2, <1>3, <1>4

\* In both programs: that nobody is at work, or somebody can go on.
LEMMA SomebodyRuns == FamilyInv /\ Endings => NeverStuck
  BY ForkRuns, QueueRuns DEF FamilyInv, NeverStuck

\* An empty pipe leaves every number written with a painter.
LEMMA EmptyPipe == Account /\ PeersGone => NothingLeft
<1> SUFFICES ASSUME Account, PeersGone,
                    NEW q \in Painter, stage[q] = "done"
             PROVE  /\ stage[Generator] = "done" => num = Limit
                    /\ \A n \in 0 .. num - 1 : \E p \in Painter :
                          \/ n \in ToSet(painted[p])
                          \/ /\ stage[p] \in {"paint", "killed"}
                             /\ number[p] = n
  BY DEF NothingLeft
<1>1. pipe = <<>> /\ Len(pipe) = 0
  BY EmptySeq DEF PeersGone
<1>2. Oldest = num
  BY <1>1 DEF Oldest, Account, Types
<1>3. ASSUME NEW n \in 0 .. num - 1
      PROVE  \E p \in Painter :
                \/ n \in ToSet(painted[p])
                \/ stage[p] \in {"paint", "killed"} /\ number[p] = n
  <2>1. PICK p \in Painter :
          Has(p, n) \/ (stage[p] = "killed" /\ number[p] = n)
    BY <1>2 DEF Account, Shared
  <2>2. DOMAIN painted[p] = 1 .. Len(painted[p])
    BY LenProperties DEF Account, Types
  <2> QED
    BY <2>1, <2>2 DEF Has, ToSet
<1>4. stage[Generator] = "done" => num = Limit
  BY DEF PeersGone, PaintersDead
<1> QED
  BY <1>3, <1>4

\* pipe_close_handling.c and pipe_queue.c never block with all their processes
\* or threads waiting for one another: who waits to write has a reader that is
\* at work, and who waits to read a writer, whichever of them are killed and
\* whichever forks fail; but for a pipe_queue.c without a single thread.
THEOREM SomebodyGoesOn == MCSpec => []NeverStuck
  BY FamilyInit, FamilyStep, EndingsInit, EndingsStep, SomebodyRuns, PTL
  DEF MCSpec

\* A painter that says "numbers are gone" leaves no number behind: each was
\* painted, or read by a painter that has it in hand or was killed with it.
THEOREM NumbersGone == MCSpec => []NothingLeft
<1>1. FamilyInv => Account /\ PeersGone
  BY DEF FamilyInv, ForkInv, ThreadInv
<1> QED
  BY <1>1, FamilyInit, FamilyStep, EmptyPipe, PTL DEF MCSpec

=============================================================================
