------------------------- MODULE PipeCloseHandling -------------------------
(***************************************************************************)
(* sem-08-ipc/pipe_close_handling.c: a generator process writes numbers    *)
(* into a pipe from which its forked painters read.                        *)
(*                                                                         *)
(* read reports the end when nobody holds the write end, and write reports *)
(* EPIPE when nobody holds the read end: who closes which end, and when,   *)
(* decides whether anybody ever learns that the others are gone.  Painters *)
(* and the generator may be terminated from outside at any time, as the    *)
(* file invites its reader to try.  A number is less than PIPE_BUF bytes:  *)
(* reads and writes of it are atomic.                                      *)
(***************************************************************************)
EXTENDS Naturals, Sequences, SequencesExt

CONSTANTS Painters,   \* painters_count
          Limit,      \* how many numbers the generator writes, 200
          Capacity    \* of the pipe, in numbers

ASSUME PipeAssumption ==
    /\ Painters \in Nat \ {0}
    /\ Limit \in Nat
    /\ Capacity \in Nat \ {0}

Painter == 1 .. Painters
Generator == 0
Process == Painter \cup {Generator}

VARIABLES stage,    \* of each process, see TypeOK
          forked,   \* how often main called fork
          readers,  \* the processes that hold the read end
          writers,  \* the processes that hold the write end
          pipe,     \* the numbers in the pipe
          num,      \* the next number to write
          number,   \* of each painter: what it read and has yet to paint
          painted   \* of each painter: what it painted

procVars == <<stage, forked>>
fdVars == <<readers, writers>>
dataVars == <<pipe, num, number, painted>>
vars == <<procVars, fdVars, dataVars>>

Numbers == 0 .. Limit - 1
Ended == {"done", "exited", "killed"}

TypeOK ==
    /\ stage[Generator] \in {"fork", "write", "deserted"} \cup Ended
    /\ \A p \in Painter :
          stage[p] \in {"none", "forked", "read", "paint"} \cup Ended
    /\ forked \in 0 .. Painters
    /\ readers \subseteq Process
    /\ writers \subseteq Process
    /\ pipe \in Seq(Numbers) /\ Len(pipe) <= Capacity
    /\ num \in 0 .. Limit
    /\ number \in [Painter -> Nat]
    /\ painted \in [Painter -> Seq(Numbers)]

Init ==
    /\ stage = [p \in Process |-> IF p = Generator THEN "fork" ELSE "none"]
    /\ forked = 0
    /\ readers = {Generator}
    /\ writers = {Generator}
    /\ pipe = <<>>
    /\ num = 0
    /\ number = [p \in Painter |-> Limit]  \* nothing read yet
    /\ painted = [p \in Painter |-> <<>>]

Goto(p, s) == stage' = [stage EXCEPT ![p] = s]

\* A process ends: the kernel closes what it has open.
Leave(p, s) ==
    /\ Goto(p, s)
    /\ readers' = readers \ {p}
    /\ writers' = writers \ {p}

-----------------------------------------------------------------------------
(* The generator: main and generate_numbers                                *)

\* The child has a copy of both ends.
Fork ==
    /\ stage[Generator] = "fork" /\ forked < Painters
    /\ forked' = forked + 1
    /\ Goto(forked + 1, "forked")
    /\ readers' = readers \cup {forked + 1}
    /\ writers' = writers \cup {forked + 1}
    /\ UNCHANGED dataVars

\* main does not look for a fork that failed: there is a painter less.
ForkError ==
    /\ stage[Generator] = "fork" /\ forked < Painters
    /\ forked' = forked + 1
    /\ UNCHANGED <<stage, fdVars, dataVars>>

\* Faulty variant: main keeps its read end.
KeepReadEnd ==
    /\ stage[Generator] = "fork" /\ forked = Painters
    /\ Goto(Generator, "write")
    /\ UNCHANGED <<forked, fdVars, dataVars>>

CloseReadEnd ==
    /\ stage[Generator] = "fork" /\ forked = Painters
    /\ readers' = readers \ {Generator}
    /\ Goto(Generator, "write")
    /\ UNCHANGED <<forked, writers, dataVars>>

\* Faulty variant: the pipe is told to be full by O_NONBLOCK, and the number
\* is given up.
WriteOrDrop ==
    /\ stage[Generator] = "write" /\ num < Limit /\ readers # {}
    /\ pipe' = IF Len(pipe) < Capacity THEN Append(pipe, num) ELSE pipe
    /\ num' = num + 1
    /\ UNCHANGED <<procVars, fdVars, number, painted>>

Write ==
    /\ stage[Generator] = "write" /\ num < Limit /\ readers # {}
    /\ Len(pipe) < Capacity
    /\ pipe' = Append(pipe, num)
    /\ num' = num + 1
    /\ UNCHANGED <<procVars, fdVars, number, painted>>

\* Faulty variant: a full pipe is taken for one without readers.
WriteFull ==
    /\ stage[Generator] = "write" /\ num < Limit
    /\ readers = {} \/ Len(pipe) = Capacity
    /\ Goto(Generator, "deserted")
    /\ UNCHANGED <<forked, fdVars, dataVars>>

\* "all painters are dead": SIGPIPE is ignored, and write gives EPIPE.
WriteDeserted ==
    /\ stage[Generator] = "write" /\ num < Limit /\ readers = {}
    /\ Goto(Generator, "deserted")
    /\ UNCHANGED <<forked, fdVars, dataVars>>

\* generate_numbers returns, from its loop or after EPIPE: main closes the
\* write end and says "all numbers was produced" in either case.
Produced ==
    /\ \/ stage[Generator] = "deserted"
       \/ stage[Generator] = "write" /\ num = Limit
    /\ Goto(Generator, "done")
    /\ writers' = writers \ {Generator}
    /\ UNCHANGED <<forked, readers, dataVars>>

\* A button was pressed: main returns, the painters go on.
Quit ==
    /\ stage[Generator] = "done"
    /\ Leave(Generator, "exited")
    /\ UNCHANGED <<forked, dataVars>>

-----------------------------------------------------------------------------
(* A painter: the child in main and paint_numbers                          *)

\* Faulty variant: the child keeps its copy of the write end.
KeepWriteEnd(p) ==
    /\ stage[p] = "forked"
    /\ Goto(p, "read")
    /\ UNCHANGED <<forked, fdVars, dataVars>>

CloseWriteEnd(p) ==
    /\ stage[p] = "forked"
    /\ writers' = writers \ {p}
    /\ Goto(p, "read")
    /\ UNCHANGED <<forked, readers, dataVars>>

Read(p) ==
    /\ stage[p] = "read" /\ pipe # <<>>
    /\ number' = [number EXCEPT ![p] = Head(pipe)]
    /\ pipe' = Tail(pipe)
    /\ Goto(p, "paint")
    /\ UNCHANGED <<forked, fdVars, num, painted>>

\* "numbers are gone": read gives 0.
ReadEnd(p) ==
    /\ stage[p] = "read" /\ pipe = <<>> /\ writers = {}
    /\ Leave(p, "done")
    /\ UNCHANGED <<forked, dataVars>>

\* Faulty variant: one number for all painters, as if they were threads.
PaintShared(p) ==
    /\ stage[p] = "paint"
    /\ \E q \in Painter :
          painted' = [painted EXCEPT ![p] = Append(@, number[q])]
    /\ Goto(p, "read")
    /\ UNCHANGED <<forked, fdVars, pipe, num, number>>

Paint(p) ==
    /\ stage[p] = "paint"
    /\ painted' = [painted EXCEPT ![p] = Append(@, number[p])]
    /\ Goto(p, "read")
    /\ UNCHANGED <<forked, fdVars, pipe, num, number>>

-----------------------------------------------------------------------------
Gone(p) ==
    stage[p] \in {"exited", "killed"} \/ (p # Generator /\ stage[p] = "done")

\* A signal from outside terminates p.
Kill(p) ==
    /\ ~Gone(p) /\ stage[p] # "none"
    /\ Leave(p, "killed")
    /\ UNCHANGED <<forked, dataVars>>

Main ==
    Fork \/ ForkError \/ CloseReadEnd \/ Write \/ WriteDeserted \/ Produced

Paints(p) == CloseWriteEnd(p) \/ Read(p) \/ ReadEnd(p) \/ Paint(p)

Next ==
    \/ Main \/ Quit
    \/ \E p \in Painter : Paints(p)
    \/ \E p \in Process : Kill(p)

Spec == Init /\ [][Next]_vars

\* The kernel schedules every process that can run.
FairSpec == Spec /\ WF_vars(Main) /\ \A p \in Painter : WF_vars(Paints(p))

-----------------------------------------------------------------------------
(* Properties                                                              *)

Holds(p) ==
    painted[p] \o (IF stage[p] = "paint" THEN <<number[p]>> ELSE <<>>)

\* Each number written is in one place: it was painted by one painter, read
\* by one, or is in the pipe, and each painter has its numbers in order.  A
\* killed painter takes at most the number it read along.
NumbersAccounted ==
    LET Places == {pipe} \cup {Holds(p) : p \in Painter}
        missing == (0 .. num - 1) \ UNION {ToSet(s) : s \in Places}
    IN  /\ TypeOK
        /\ \A s \in Places : \A i, j \in 1 .. Len(s) : i < j => s[i] < s[j]
        /\ \A p, q \in Painter :
              /\ ToSet(Holds(p)) \cap ToSet(pipe) = {}
              /\ p # q => ToSet(Holds(p)) \cap ToSet(Holds(q)) = {}
        /\ \A n \in missing :
              \E p \in Painter : stage[p] = "killed" /\ number[p] = n

PaintersDead == \A p \in Painter : stage[p] \in {"none", "killed"}

\* What EPIPE and the end of file make a process print about the others is so.
\* "all painters are dead" is said when every painter that was made is killed;
\* "numbers are gone" when nobody will write any more and all that was written
\* has been read.  "all numbers was produced" is so but for dead painters.
PeersGone ==
    /\ stage[Generator] = "deserted" => PaintersDead
    /\ stage[Generator] = "done" => num = Limit \/ PaintersDead
    /\ \A p \in Painter : stage[p] = "done" =>
          stage[Generator] \in Ended /\ pipe = <<>>

\* "all numbers was produced", pipe_close_handling.c:93: main has written all
\* of them when it says so.  After EPIPE it has not.
ProducedTrue == stage[Generator] = "done" => num = Limit

\* The generator stops: all is written, or it learns that nobody reads.
GeneratorStops == <>(stage[Generator] \in Ended)

\* The painters learn that nobody writes any more and leave.
PaintersLeave ==
    \A p \in Painter :
        stage[Generator] \in Ended ~> stage[p] \in {"none", "done", "killed"}

\* Every number written is painted, whichever painters are killed, but for
\* those they held and unless no painter is left.
NumbersPainted ==
    \A n \in Numbers :
        num > n ~> \/ \E p \in Painter : n \in ToSet(painted[p])
                   \/ \E p \in Painter : stage[p] = "killed" /\ number[p] = n
                   \/ \A p \in Painter : stage[p] \in {"none", "killed"}

=============================================================================
