----------------------------- MODULE MCThreads ------------------------------
(* Threads that share memory: the programs of SharedMemory, SpinLock, the  *)
(* partial sums of ArrayAvg and CondvarPingPong, each from its initial     *)
(* states.                                                                 *)
EXTENDS SharedMemory, FiniteSets

CONSTANTS w1, w2, w3, Workers, MaxSize, MaxThreads, Turns

MCWorkers == {w1, w2, w3}

ASSUME ThreadsAssumption ==
    /\ IsFiniteSet(Workers)
    /\ MaxSize \in Nat /\ MaxThreads \in Nat /\ Turns \in Nat

VARIABLES part,                              \* the module that runs
          locked, counter, pc, i, register,  \* of SpinLock
          size, threadNum, created, ranges, summed, sum, joined,  \* ArrayAvg
          at, turn, owner, str, printed      \* of CondvarPingPong

Locking == INSTANCE SpinLock WITH reg <- register
Summing == INSTANCE ArrayAvg
Playing == INSTANCE CondvarPingPong WITH Rounds <- Turns, pc <- at, i <- turn

lockVars == <<locked, counter, pc, i, register>>
sumVars == <<size, threadNum, created, ranges, summed, sum, joined>>
playVars == <<at, turn, owner, str, printed>>
mcVars == <<part, vars, lockVars, sumVars, playVars>>

\* One part runs, and the variables of the others are as they begin.
MCInit ==
    /\ part \in
         {"shared memory", "spin lock", "mutex", "array average", "ping pong"}
    /\ Init /\ (part # "shared memory" => program = "atomic")
    /\ Locking!Init
    /\ Summing!Init
    /\ part # "array average" => size = 1 /\ threadNum = 1
    /\ Playing!Init

Races(A) ==
    part = "shared memory" /\ A
        /\ UNCHANGED <<part, lockVars, sumVars, playVars>>
Locks(lock, A) ==
    part = lock /\ A /\ UNCHANGED <<part, vars, sumVars, playVars>>
Sums(A) ==
    part = "array average" /\ A /\ UNCHANGED <<part, vars, lockVars, playVars>>
Plays(A) ==
    part = "ping pong" /\ A /\ UNCHANGED <<part, vars, lockVars, sumVars>>

\* A worker of mutex.c.
Works(w) ==
    \/ Locks("spin lock", Locking!Runs(w))
    \/ Locks("mutex", Locking!MutexRuns(w))

\* The programs may end.
Over ==
    /\ \/ part = "shared memory" /\ main = "exited"
       \/ part \in {"spin lock", "mutex"} /\ Locking!Terminated
       \/ part = "array average" /\ Summing!Averaged
       \/ part = "ping pong" /\ Playing!Terminated
    /\ UNCHANGED mcVars

MCNext ==
    \/ Races(Next)
    \/ \E w \in Workers : Works(w)
    \/ Sums(Summing!Next)
    \/ \E t \in Playing!Thread :
          Plays(Playing!Runs(t)) \/ Plays(Playing!SpuriousWakeup(t))
    \/ Over

\* The fairness of SpinLock and of CondvarPingPong: the kernel schedules every
\* thread that can run, and no thread wakes for no reason for ever.
MCFairSpec ==
    /\ MCInit /\ [][MCNext]_mcVars
    /\ \A w \in Workers : WF_mcVars(Works(w))
    /\ \A t \in Playing!Thread : WF_mcVars(Plays(Playing!Runs(t)))
    /\ <>[][\A t \in Playing!Thread : ~Playing!SpuriousWakeup(t)]_mcVars

-----------------------------------------------------------------------------
(* The properties of the parts, which NeverBothZero and CountsBounded of   *)
(* SharedMemory are among.                                                 *)

\* One worker of mutex.c at a time is between lock and unlock.
MutualExclusion == Locking!MutualExclusion

\* The counter of mutex.c is the number of increments made.
CounterExact == Locking!CounterExact

\* Every worker of mutex.c gets the lock as often as it needs it.
WorkersEnd == part \in {"spin lock", "mutex"} => Locking!Terminates

\* array_avg_parallel adds no element twice, and all of them if it can.
EachOnce == Summing!EachOnce

\* The threads of condvar.c print in turn.
Alternating == Playing!Alternating

\* No thread of condvar.c sleeps through what it waits for.
NoLostWakeup == Playing!NoLostWakeup

\* Both threads of condvar.c print all their words.
PlayersEnd == part = "ping pong" => Playing!Terminates
=============================================================================
