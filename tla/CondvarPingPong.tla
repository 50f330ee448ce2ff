-------------------------- MODULE CondvarPingPong --------------------------
(***************************************************************************)
(* sem-07-synchronization/condvar.c: two threads print ping and pong in    *)
(* turn, and tell each other through str, a mutex and a condition          *)
(* variable.                                                               *)
(*                                                                         *)
(* pthread_cond_wait gives the mutex up and falls asleep in one step; a    *)
(* sleeper wakes by a signal or for no reason, and has to take the mutex   *)
(* again before it goes on.                                                *)
(***************************************************************************)
EXTENDS Naturals, Sequences

CONSTANT Rounds  \* how often each thread prints, 10

Thread == {"ping", "pong"}
Other(t) == IF t = "ping" THEN "pong" ELSE "ping"
Nobody == "nobody"

VARIABLES pc,      \* of each thread, see TypeOK
          i,       \* of each thread: the loop variable
          owner,   \* of the mutex
          str,     \* the last word written
          printed  \* what was printed

vars == <<pc, i, owner, str, printed>>

TypeOK ==
    /\ pc \in [Thread -> {"lock", "check", "wait", "asleep", "relock",
                          "print", "signal", "unlock", "done"}]
    /\ i \in [Thread -> 0 .. Rounds]
    /\ owner \in Thread \cup {Nobody}
    /\ str \in Thread
    /\ printed \in Seq(Thread)

Begin(n) == IF n < Rounds THEN "lock" ELSE "done"

\* main writes "pong", which lets ping begin.
Init ==
    /\ pc = [t \in Thread |-> Begin(0)]
    /\ i = [t \in Thread |-> 0]
    /\ owner = Nobody
    /\ str = "pong"
    /\ printed = <<>>

Step(t, from, to) == pc[t] = from /\ pc' = [pc EXCEPT ![t] = to]

-----------------------------------------------------------------------------
Lock(t) ==
    /\ Step(t, "lock", "check") /\ owner = Nobody
    /\ owner' = t
    /\ UNCHANGED <<i, str, printed>>

\* strcmp in the condition of the loop.
Check(t) ==
    /\ Step(t, "check", IF str = Other(t) THEN "print" ELSE "wait")
    /\ UNCHANGED <<i, owner, str, printed>>

\* Faulty variant, which the comment in ping_fun asks about: the mutex is
\* given up after the check and before the thread falls asleep.
UnlockThenSleep(t) ==
    /\ pc[t] = "wait"
    /\ IF owner = t
       THEN owner' = Nobody /\ UNCHANGED pc
       ELSE pc' = [pc EXCEPT ![t] = "asleep"] /\ UNCHANGED owner
    /\ UNCHANGED <<i, str, printed>>

\* pthread_cond_wait
Wait(t) ==
    /\ Step(t, "wait", "asleep")
    /\ owner' = Nobody
    /\ UNCHANGED <<i, str, printed>>

SpuriousWakeup(t) ==
    /\ Step(t, "asleep", "relock")
    /\ UNCHANGED <<i, owner, str, printed>>

\* Faulty variant: "if" where the code says "while".
RelockAndPrint(t) ==
    /\ Step(t, "relock", "print") /\ owner = Nobody
    /\ owner' = t
    /\ UNCHANGED <<i, str, printed>>

\* pthread_cond_wait returns into the condition of the loop.
Relock(t) ==
    /\ Step(t, "relock", "check") /\ owner = Nobody
    /\ owner' = t
    /\ UNCHANGED <<i, str, printed>>

\* sprintf and printf, by the holder of the mutex.
PrintWord(t) ==
    /\ Step(t, "print", "signal")
    /\ str' = t
    /\ printed' = Append(printed, t)
    /\ UNCHANGED <<i, owner>>

\* Faulty variant: the signal is left out of the last round.
SignalButLast(t) ==
    /\ pc[t] = "signal"
    /\ pc' = [u \in Thread |->
                IF u = t THEN "unlock"
                ELSE IF pc[u] = "asleep" /\ i[t] + 1 < Rounds THEN "relock"
                     ELSE pc[u]]
    /\ UNCHANGED <<i, owner, str, printed>>

\* pthread_cond_signal wakes the other thread if it sleeps, and is forgotten
\* if it does not.
Signal(t) ==
    /\ pc[t] = "signal"
    /\ pc' = [u \in Thread |->
                IF u = t THEN "unlock"
                ELSE IF pc[u] = "asleep" THEN "relock" ELSE pc[u]]
    /\ UNCHANGED <<i, owner, str, printed>>

Unlock(t) ==
    /\ Step(t, "unlock", Begin(i[t] + 1))
    /\ owner' = Nobody
    /\ i' = [i EXCEPT ![t] = @ + 1]
    /\ UNCHANGED <<str, printed>>

-----------------------------------------------------------------------------
Runs(t) ==
    Lock(t) \/ Check(t) \/ Wait(t) \/ Relock(t) \/ PrintWord(t) \/ Signal(t)
        \/ Unlock(t)

\* pthread_join lets main return when both are done.
Terminated == \A t \in Thread : pc[t] = "done"
Joined == Terminated /\ UNCHANGED vars

Next == Joined \/ \E t \in Thread : Runs(t) \/ SpuriousWakeup(t)

Spec == Init /\ [][Next]_vars

\* The kernel schedules every thread that can run, and does not wake sleepers
\* for no reason for ever: no spurious wakeup is relied on, and the mutex is
\* not even asked to be fair.
FairSpec ==
    /\ Spec
    /\ \A t \in Thread : WF_vars(Runs(t))
    /\ <>[][\A t \in Thread : ~SpuriousWakeup(t)]_vars

-----------------------------------------------------------------------------
(* Properties                                                              *)

\* ping and pong alternate, ping first, however the threads are scheduled and
\* woken.
Alternating ==
    \A k \in 1 .. Len(printed) :
        printed[k] = IF k % 2 = 1 THEN "ping" ELSE "pong"

\* A thread that sleeps, or holds the mutex to fall asleep, has nothing to do
\* yet, or the other one is about to signal: no wakeup is lost.
NoLostWakeup ==
    \A t \in Thread :
        /\ pc[t] = "asleep" => str = t \/ pc[Other(t)] = "signal"
        /\ pc[t] = "wait" => str = t

\* Both threads print all their words, and main can join them.
Terminates == <>Terminated

=============================================================================
