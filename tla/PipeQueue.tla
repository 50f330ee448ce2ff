----------------------------- MODULE PipeQueue ------------------------------
(***************************************************************************)
(* sem-08-ipc/pipe_queue.c: the numbers of PipeCloseHandling for painters  *)
(* that are threads of the generator's process.                            *)
(*                                                                         *)
(* They share its descriptors: nobody has a copy of the write end to close *)
(* and nobody closes the read end, so that EPIPE cannot happen.  Whatever  *)
(* ends the process ends them, wherever they are.                          *)
(***************************************************************************)
EXTENDS Naturals, Sequences

CONSTANTS Painters,   \* painters_count
          Limit,      \* how many numbers the generator writes, 1000
          Capacity    \* of the pipe, in numbers

Painter == 1 .. Painters
Generator == 0

VARIABLES stage,    \* of main and each thread, see PipeCloseHandling
          forked,   \* how often main called pthread_create
          writers,  \* {Generator} until the write end is closed
          pipe, num, number, painted  \* as in PipeCloseHandling

vars == <<stage, forked, writers, pipe, num, number, painted>>

Init ==
    /\ stage = [p \in Painter \cup {Generator} |->
                  IF p = Generator THEN "fork" ELSE "none"]
    /\ forked = 0
    /\ writers = {Generator}
    /\ pipe = <<>>
    /\ num = 0
    /\ number = [p \in Painter |-> Limit]
    /\ painted = [p \in Painter |-> <<>>]

Goto(p, s) == stage' = [stage EXCEPT ![p] = s]

\* The process ends in stage s, with every thread that has not returned.
End(s) ==
    /\ stage' = [p \in DOMAIN stage |->
                   IF p = Generator THEN s
                   ELSE IF stage[p] \in {"none", "done"} THEN stage[p]
                   ELSE "killed"]
    /\ writers' = {}

-----------------------------------------------------------------------------
(* main and generate_numbers                                               *)

Create ==
    /\ stage[Generator] = "fork" /\ forked < Painters
    /\ forked' = forked + 1
    /\ Goto(forked + 1, "read")
    /\ UNCHANGED <<writers, pipe, num, number, painted>>

\* No thread, for the result is not looked at; to detach one that was never
\* made may do nothing, or end the process.
CreateError ==
    /\ stage[Generator] = "fork" /\ forked < Painters
    /\ forked' = forked + 1
    /\ End("killed") \/ UNCHANGED <<stage, writers>>
    /\ UNCHANGED <<pipe, num, number, painted>>

Write ==
    /\ stage[Generator] \in {"fork", "write"}
    /\ forked = Painters /\ num < Limit
    /\ Len(pipe) < Capacity
    /\ pipe' = Append(pipe, num)
    /\ num' = num + 1
    /\ Goto(Generator, "write")
    /\ UNCHANGED <<forked, writers, number, painted>>

\* The write end is closed and "all numbers was produced" said.
WriteDone ==
    /\ stage[Generator] \in {"fork", "write"}
    /\ forked = Painters /\ num = Limit
    /\ Goto(Generator, "done")
    /\ writers' = {}
    /\ UNCHANGED <<forked, pipe, num, number, painted>>

\* A button was pressed, and main returns.
Quit ==
    /\ stage[Generator] = "done"
    /\ End("exited")
    /\ UNCHANGED <<forked, pipe, num, number, painted>>

-----------------------------------------------------------------------------
(* paint_numbers                                                           *)

Read(p) ==
    /\ stage[p] = "read" /\ pipe # <<>>
    /\ number' = [number EXCEPT ![p] = Head(pipe)]
    /\ pipe' = Tail(pipe)
    /\ Goto(p, "paint")
    /\ UNCHANGED <<forked, writers, num, painted>>

\* "numbers are gone": read gives 0.
ReadEnd(p) ==
    /\ stage[p] = "read" /\ pipe = <<>> /\ writers = {}
    /\ Goto(p, "done")
    /\ UNCHANGED <<forked, writers, pipe, num, number, painted>>

Paint(p) ==
    /\ stage[p] = "paint"
    /\ painted' = [painted EXCEPT ![p] = Append(@, number[p])]
    /\ Goto(p, "read")
    /\ UNCHANGED <<forked, writers, pipe, num, number>>

-----------------------------------------------------------------------------
\* A signal from outside.
Kill ==
    /\ stage[Generator] \in {"fork", "write", "done"}
    /\ End("killed")
    /\ UNCHANGED <<forked, pipe, num, number, painted>>

Main == Create \/ CreateError \/ Write \/ WriteDone
Paints(p) == Read(p) \/ ReadEnd(p) \/ Paint(p)

=============================================================================
