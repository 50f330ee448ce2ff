-------------------------- MODULE SigintCatSelect --------------------------
(***************************************************************************)
(* sem-08-ipc/sigint_cat_select.c: copies its input to its output until a  *)
(* SIGINT arrives, which it takes from a signalfd and waits for together   *)
(* with the input.                                                         *)
(*                                                                         *)
(* SIGINT is blocked: it stays pending, once, and interrupts no call.  The *)
(* output is a pipe or terminal that takes the bytes as its reader goes.   *)
(***************************************************************************)
EXTENDS Naturals, Sequences

CONSTANTS MaxInput,  \* bound: bytes that are typed
          BufSize,   \* sizeof(buffer), 4096
          OutCap     \* capacity of the output, in bytes

VARIABLES pc,       \* start, select, handle, write, exited, killed
          ready,    \* fds, after select: signal, input
          pending,  \* SIGINT is pending
          typed,    \* how many bytes the terminal has given
          eof,      \* the input was ended
          taken,    \* how many of them were read
          rest,     \* the bytes write has yet to take
          output,   \* the bytes in the output
          shown     \* the bytes its reader has

userVars == <<typed, eof>>
vars == <<pc, ready, pending, userVars, taken, rest, output, shown>>

Init ==
    /\ pc = "start"
    /\ ready = {}
    /\ pending = FALSE
    /\ typed = 0
    /\ eof = FALSE
    /\ taken = 0
    /\ rest = <<>>
    /\ output = <<>>
    /\ shown = <<>>

-----------------------------------------------------------------------------
(* The user and the reader of the output                                   *)

Type ==
    /\ ~eof /\ typed < MaxInput
    /\ typed' = typed + 1
    /\ UNCHANGED <<pc, ready, pending, eof, taken, rest, output, shown>>

EndInput ==
    /\ ~eof
    /\ eof' = TRUE
    /\ UNCHANGED <<pc, ready, pending, typed, taken, rest, output, shown>>

\* The signal ends a process that has not blocked it yet.
Sigint ==
    /\ pc \notin {"exited", "killed"}
    /\ IF pc = "start"
       THEN pc' = "killed" /\ UNCHANGED pending
       ELSE pending' = TRUE /\ UNCHANGED pc
    /\ UNCHANGED <<ready, userVars, taken, rest, output, shown>>

Show ==
    /\ output # <<>>
    /\ shown' = Append(shown, Head(output))
    /\ output' = Tail(output)
    /\ UNCHANGED <<pc, ready, pending, userVars, taken, rest>>

-----------------------------------------------------------------------------
(* main                                                                    *)

BlockSigint ==
    /\ pc = "start"
    /\ pc' = "select"
    /\ UNCHANGED <<ready, pending, userVars, taken, rest, output, shown>>

\* Faulty variant: select waits for the input alone.
SelectInput ==
    /\ pc = "select"
    /\ typed > taken \/ eof
    /\ ready' = {"input"} \cup IF pending THEN {"signal"} ELSE {}
    /\ pc' = "handle"
    /\ UNCHANGED <<pending, userVars, taken, rest, output, shown>>

Select ==
    /\ pc = "select"
    /\ ready' = {f \in {"signal", "input"} :
                   \/ f = "signal" /\ pending
                   \/ f = "input" /\ (typed > taken \/ eof)}
    /\ ready' # {}
    /\ pc' = "handle"
    /\ UNCHANGED <<pending, userVars, taken, rest, output, shown>>

\* The signal goes before the input.
TakeSignal ==
    /\ pc = "handle" /\ "signal" \in ready
    /\ pending' = FALSE
    /\ ready' = {}
    /\ pc' = "exited"
    /\ UNCHANGED <<userVars, taken, rest, output, shown>>

Read(n) ==
    /\ pc = "handle" /\ "signal" \notin ready
    /\ n \in 1 .. BufSize /\ taken + n <= typed
    /\ taken' = taken + n
    /\ rest' = [k \in 1 .. n |-> taken + k]
    /\ ready' = {}
    /\ pc' = "write"
    /\ UNCHANGED <<pending, userVars, output, shown>>

\* The -1 of a read that fails is passed on to write as a count, with which it
\* fails too; neither result is looked at.
ReadError ==
    /\ pc = "handle" /\ ready = {"input"}
    /\ ready' = {}
    /\ pc' = "select"
    /\ UNCHANGED <<pending, userVars, taken, rest, output, shown>>

\* An input at its end stays readable: the loop turns until a SIGINT.
ReadEnd ==
    /\ pc = "handle" /\ "signal" \notin ready
    /\ eof /\ taken = typed
    /\ ready' = {}
    /\ pc' = "select"
    /\ UNCHANGED <<pending, userVars, taken, rest, output, shown>>

\* The bytes write takes in one go.
Taken(n) ==
    /\ pc = "write"
    /\ n \in 1 .. Len(rest) /\ Len(output) + n <= OutCap
    /\ output' = output \o SubSeq(rest, 1, n)
    /\ UNCHANGED <<ready, pending, userVars, taken, shown>>

\* Faulty variant: a non-blocking write, whose result is not looked at.
WriteOnce(n) ==
    /\ Taken(n)
    /\ rest' = <<>>
    /\ pc' = "select"

\* A blocking write, which no signal interrupts, takes all.
Write(n) ==
    /\ Taken(n)
    /\ rest' = SubSeq(rest, n + 1, Len(rest))
    /\ pc' = IF n = Len(rest) THEN "select" ELSE "write"

-----------------------------------------------------------------------------
ReadInput == \E n \in 1 .. BufSize : Read(n)

Main ==
    \/ BlockSigint \/ Select \/ TakeSignal \/ ReadEnd
    \/ ReadInput \/ \E n \in 1 .. BufSize : Write(n)

User == Type \/ EndInput \/ Sigint

-----------------------------------------------------------------------------
(* Properties                                                              *)

\* A SIGINT shuts the program down, also while no input comes: what the check
\* of received_sigint in sigint_cat.c does not achieve.
SigintStops == pending ~> pc = "exited"

\* Every byte typed is shown, unless the program is shut down.
InputCopied ==
    \A k \in 1 .. MaxInput :
        typed >= k ~> Len(shown) >= k \/ pending \/ pc \in {"exited", "killed"}

=============================================================================
