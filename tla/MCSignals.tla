----------------------------- MODULE MCSignals ------------------------------
(* The two programs of SignalPrinters for TLC.                             *)
EXTENDS SignalPrinters

VARIABLE program  \* the file that runs

mcVars == <<program, vars>>

MCInit == Init /\ program \in {"sigaction", "signalfd"}

Prints(name, A) == program = name /\ A /\ UNCHANGED program

Programs == Prints("sigaction", ByHandler) \/ Prints("signalfd", ByDescriptor)

World ==
    \E s \in Signals :
        Prints("sigaction", StoreSignum(s)) \/ Prints("signalfd", Pend(s))

MCNext == Programs \/ World

\* The kernel schedules the process.  Nobody has to send a signal.
MCFairSpec == MCInit /\ [][MCNext]_mcVars /\ WF_mcVars(Programs)
=============================================================================
