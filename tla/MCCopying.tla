----------------------------- MODULE MCCopying -----------------------------
(* Programs that copy what they read: the three of FileCopy, SigintCat and *)
(* SigintCatSelect, each from its initial states.  The last two share the  *)
(* variables of their input and their place in main.                       *)
EXTENDS FileCopy

CONSTANTS MaxInput, OutCap

ASSUME FilterAssumption == MaxInput \in Nat /\ OutCap \in Nat

VARIABLES part,                                    \* what runs
          at, typed, eof, taken, output,           \* of the last two
          received, buffer,                        \* of SigintCat
          ready, pending, rest, shown              \* of SigintCatSelect

Checking == INSTANCE SigintCat WITH pc <- at
Selecting == INSTANCE SigintCatSelect WITH pc <- at

filterVars == <<at, typed, eof, taken, output>>
checkVars == <<received, buffer>>
selectVars == <<ready, pending, rest, shown>>
mcVars == <<part, vars, filterVars, checkVars, selectVars>>

MCInit ==
    /\ part \in {"cp", "sigint_cat", "sigint_cat_select"}
    /\ Init
    /\ part # "cp" => program = "cp-1" /\ \A n \in Names : names[n] = "absent"
    /\ Checking!Init
    /\ Selecting!Init

Copies(A) ==
    part = "cp" /\ A /\ UNCHANGED <<part, filterVars, checkVars, selectVars>>
Checks(A) ==
    part = "sigint_cat" /\ A /\ UNCHANGED <<part, vars, selectVars>>
Selects(A) ==
    part = "sigint_cat_select" /\ A /\ UNCHANGED <<part, vars, checkVars>>

Filters == Checks(Checking!Main) \/ Selects(Selecting!Main)
Users == Checks(Checking!User) \/ Selects(Selecting!User)
Shows == Selects(Selecting!Show)
Errors == Checks(Checking!Fail) \/ Selects(Selecting!ReadError)

MCNext == Copies(Next) \/ Filters \/ Users \/ Shows \/ Errors

MCSpec == MCInit /\ [][MCNext]_mcVars

\* The kernel schedules the process, the output is read, and a read that is
\* made again and again does not always fail.  Nothing makes a user type or
\* send a signal.
MCFairSpec ==
    /\ MCSpec
    /\ WF_mcVars(Filters) /\ WF_mcVars(Shows)
    /\ SF_mcVars(Selects(Selecting!ReadInput))

-----------------------------------------------------------------------------
(* Properties, which Copied and NewFileOnly of FileCopy are among.         *)

\* What comes out of sigint_cat.c and sigint_cat_select.c is the beginning of
\* what went in.  The first does not look at the result of write: a SIGINT that
\* cuts a write short must be seen before the next.
CopiedInOrder ==
    LET out == shown \o output IN out = [k \in 1 .. Len(out) |-> k]

\* "do work and periodically check sigint", sigint_cat.c:30: a SIGINT that was
\* received is seen by the check, and the program shuts down.
SigintChecked == received ~> at = "exited"

\* A SIGINT ends both, the first of them when input comes.
SigintEnds == Checking!SigintSeenWithInput /\ Selecting!SigintStops

\* Every byte typed into sigint_cat_select.c is shown, unless it is shut down.
InputCopied == part = "sigint_cat_select" => Selecting!InputCopied
=============================================================================
