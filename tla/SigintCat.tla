----------------------------- MODULE SigintCat -----------------------------
(***************************************************************************)
(* sem-08-ipc/sigint_cat.c: copies its input to its output until the input *)
(* ends or a SIGINT was seen.                                              *)
(*                                                                         *)
(* The handler may run between any two steps.  With SA_RESTART a read it   *)
(* interrupts goes on waiting.                                             *)
(***************************************************************************)
EXTENDS Naturals, Sequences

CONSTANTS MaxInput,  \* bound: bytes that are typed
          BufSize    \* sizeof(buffer), 4096

VARIABLES pc,        \* start, check, read, write, shutdown, exited, killed
          received,  \* received_sigint
          typed,     \* how many bytes the terminal has given
          eof,       \* the input was ended
          taken,     \* how many of them were read
          buffer,    \* the bytes of the last read
          output     \* the bytes written

vars == <<pc, received, typed, eof, taken, buffer, output>>

Init ==
    /\ pc = "start"
    /\ received = FALSE
    /\ typed = 0
    /\ eof = FALSE
    /\ taken = 0
    /\ buffer = <<>>
    /\ output = <<>>

-----------------------------------------------------------------------------
(* The user at the terminal                                                *)

Type ==
    /\ ~eof /\ typed < MaxInput
    /\ typed' = typed + 1
    /\ UNCHANGED <<pc, received, eof, taken, buffer, output>>

EndInput ==
    /\ ~eof
    /\ eof' = TRUE
    /\ UNCHANGED <<pc, received, typed, taken, buffer, output>>

\* The signal ends a process that has not registered sigint_handler yet.
Sigint ==
    /\ pc \notin {"exited", "killed"}
    /\ IF pc = "start"
       THEN pc' = "killed" /\ UNCHANGED received
       ELSE received' = TRUE /\ UNCHANGED pc
    /\ UNCHANGED <<typed, eof, taken, buffer, output>>

-----------------------------------------------------------------------------
(* main                                                                    *)

Step(from, to) == pc = from /\ pc' = to

Sigaction ==
    /\ Step("start", "check")
    /\ UNCHANGED <<received, typed, eof, taken, buffer, output>>

Check ==
    /\ Step("check", IF received THEN "shutdown" ELSE "read")
    /\ UNCHANGED <<received, typed, eof, taken, buffer, output>>

Read(n) ==
    /\ Step("read", "write")
    /\ n \in 1 .. BufSize /\ taken + n <= typed
    /\ taken' = taken + n
    /\ buffer' = [k \in 1 .. n |-> taken + k]
    /\ UNCHANGED <<received, typed, eof, output>>

ReadEnd ==
    /\ Step("read", "shutdown")
    /\ eof /\ taken = typed
    /\ UNCHANGED <<received, typed, eof, taken, buffer, output>>

\* Faulty variant: the loop reads again without the check.
WriteAndRead(n) ==
    /\ Step("write", "read")
    /\ n \in 1 .. Len(buffer) /\ (n = Len(buffer) \/ received)
    /\ output' = output \o SubSeq(buffer, 1, n)
    /\ buffer' = <<>>
    /\ UNCHANGED <<received, typed, eof, taken>>

\* A signal may cut a write short, which main does not look for.
Write(n) ==
    /\ Step("write", "check")
    /\ n \in 1 .. Len(buffer) /\ (n = Len(buffer) \/ received)
    /\ output' = output \o SubSeq(buffer, 1, n)
    /\ buffer' = <<>>
    /\ UNCHANGED <<received, typed, eof, taken>>

\* err: a read or a write that fails ends the program.
Fail ==
    /\ pc \in {"read", "write"} /\ pc' = "exited"
    /\ UNCHANGED <<received, typed, eof, taken, buffer, output>>

Shutdown ==
    /\ Step("shutdown", "exited")
    /\ UNCHANGED <<received, typed, eof, taken, buffer, output>>

-----------------------------------------------------------------------------
Main ==
    \/ Sigaction \/ Check \/ ReadEnd \/ Shutdown
    \/ \E n \in 1 .. BufSize : Read(n) \/ Write(n)

User == Type \/ EndInput \/ Sigint

-----------------------------------------------------------------------------
(* Properties                                                              *)

\* The next line, or the end of the input, brings the program to its check,
\* and a SIGINT received till then shuts it down.  Without either the check
\* is not reached: the read that the SIGINT interrupts is restarted.
SigintSeenWithInput ==
    received /\ (typed > taken \/ eof) ~> pc = "exited"

=============================================================================
