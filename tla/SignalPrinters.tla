--------------------------- MODULE SignalPrinters ---------------------------
(***************************************************************************)
(* sem-08-ipc/sigaction.c and signalfd.c: print the signals that arrive    *)
(* until a SIGQUIT does.  The first has a handler that stores the signal's *)
(* number and waits with pause; the second blocks the signals and reads    *)
(* them from a signalfd.                                                   *)
(*                                                                         *)
(* SIGINT stands for the five signals besides SIGQUIT.  Each is modelled   *)
(* as one that ends a process that has not prepared for it.                *)
(***************************************************************************)
EXTENDS Naturals

CONSTANT MaxSignals  \* bound: how many signals are sent

VARIABLES pc,        \* start, test, reset, call, pause, print, exited, killed
          handled,   \* the signals whose handler is installed
          signum,    \* received_signum, or of siginfo: none, INT, QUIT
          waiting,   \* the signals that are blocked and pending
          signals    \* how many were sent

vars == <<pc, handled, signum, waiting, signals>>

Signals == {"INT", "QUIT"}

Init ==
    /\ pc = "start"
    /\ handled = {}
    /\ signum = "none"
    /\ waiting = {}
    /\ signals = 0

Step(from, to) == pc = from /\ pc' = to

Send ==
    /\ pc \notin {"exited", "killed"}
    /\ signals < MaxSignals
    /\ signals' = signals + 1

-----------------------------------------------------------------------------
(* sigaction.c                                                             *)

Sigaction(s) ==
    /\ s \in Signals \ handled
    /\ "INT" \in handled \cup {s}
    /\ handled' = handled \cup {s}
    /\ Step("start", IF handled' = Signals THEN "test" ELSE "start")
    /\ UNCHANGED <<signum, waiting, signals>>

\* store_signum runs at once, between any two instructions.  It ends a pause
\* that sleeps, but not the next one.
StoreSignum(s) ==
    /\ Send
    /\ IF s \in handled
       THEN /\ signum' = s
            /\ pc' = IF pc = "pause" THEN "print" ELSE pc
       ELSE pc' = "killed" /\ UNCHANGED signum
    /\ UNCHANGED <<handled, waiting>>

TestSignum ==
    /\ Step("test", IF signum = "QUIT" THEN "exited" ELSE "reset")
    /\ UNCHANGED <<handled, signum, waiting, signals>>

\* A SIGQUIT since the test is forgotten here.
ResetSignum ==
    /\ Step("reset", "call")
    /\ signum' = "none"
    /\ UNCHANGED <<handled, waiting, signals>>

\* Whatever was stored since the reset, pause sleeps until the next signal.
Pause ==
    /\ Step("call", "pause")
    /\ UNCHANGED <<handled, signum, waiting, signals>>

\* Faulty variant: the signal is forgotten when it is printed.
PrintAndReset ==
    /\ Step("print", "test")
    /\ signum' = "none"
    /\ UNCHANGED <<handled, waiting, signals>>

PrintSignum ==
    /\ Step("print", "test")
    /\ UNCHANGED <<handled, signum, waiting, signals>>

ByHandler ==
    \/ TestSignum \/ ResetSignum \/ Pause \/ PrintSignum
    \/ \E s \in Signals : Sigaction(s)

-----------------------------------------------------------------------------
(* signalfd.c                                                              *)

BlockSignals ==
    /\ Step("start", "pause")
    /\ UNCHANGED <<handled, signum, waiting, signals>>

\* A blocked signal is pending, once.
Pend(s) ==
    /\ Send
    /\ IF pc = "start" THEN pc' = "killed" /\ UNCHANGED waiting
       ELSE waiting' = waiting \cup {s} /\ UNCHANGED pc
    /\ UNCHANGED <<handled, signum>>

ReadSignal(s) ==
    /\ s \in waiting
    /\ Step("pause", "print")
    /\ waiting' = waiting \ {s}
    /\ signum' = s
    /\ UNCHANGED <<handled, signals>>

PrintSignal ==
    /\ Step("print", IF signum = "QUIT" THEN "exited" ELSE "pause")
    /\ UNCHANGED <<handled, signum, waiting, signals>>

ByDescriptor ==
    BlockSignals \/ PrintSignal \/ \E s \in Signals : ReadSignal(s)

-----------------------------------------------------------------------------
(* Properties                                                              *)

\* A SIGQUIT that comes while sigaction.c sleeps, prints or is about to test
\* ends it, unless the next signal comes before the test and overwrites it.
\* One that comes between the test and the sleep does not, see QuitSeen.
\* signalfd.c loses none.
QuitEnds ==
    /\ signum = "QUIT" /\ pc \in {"print", "test"}
           ~> pc = "exited" \/ signum = "INT"
    /\ "QUIT" \in waiting ~> pc = "exited"

\* while (received_signum != SIGQUIT), sigaction.c:35: the program does not go
\* on waiting with a SIGQUIT received.  It does, with one that comes after
\* received_signum = 0 and before pause sleeps.
QuitSeen == pc = "pause" => signum # "QUIT"

=============================================================================
