------------------------ MODULE MCPipeCloseHandling ------------------------
(* The painters that are processes and those that are threads, each from   *)
(* its initial state, for the same properties.                             *)
EXTENDS PipeCloseHandling

VARIABLE program  \* the file that runs

mcVars == <<vars, program>>

Threads == INSTANCE PipeQueue

MCInit ==
    \/ program = "pipe_close_handling" /\ Init
    \/ program = "pipe_queue" /\ Threads!Init /\ readers = {Generator}

Forking(A) == program = "pipe_close_handling" /\ A /\ UNCHANGED program
Threading(A) ==
    program = "pipe_queue" /\ A /\ UNCHANGED <<program, readers>>

MCMain == Forking(Main) \/ Threading(Threads!Main)
MCPaints(p) == Forking(Paints(p)) \/ Threading(Threads!Paints(p))

MCNext ==
    \/ MCMain
    \/ \E p \in Painter : MCPaints(p)
    \/ Forking(Quit \/ \E p \in Process : Kill(p))
    \/ Threading(Threads!Quit \/ Threads!Kill)

MCSpec == MCInit /\ [][MCNext]_mcVars

MCFairSpec ==
    /\ MCSpec
    /\ WF_mcVars(MCMain)
    /\ \A p \in Painter : WF_mcVars(MCPaints(p))

\* GeneratorStops, except that pipe_queue.c waits for ever on a full pipe when
\* not one thread could be created: the read end is its own, and open.
GeneratorEnds ==
    <>(\/ stage[Generator] \in Ended
       \/ /\ program = "pipe_queue" /\ forked = Painters
          /\ \A p \in Painter : stage[p] = "none")
=============================================================================
