------------------------------ MODULE SpinLock ------------------------------
(***************************************************************************)
(* sem-07-synchronization/mutex.c: threads increment a counter under a     *)
(* lock.  The file's worker calls the pthread mutex (MutexRuns); calls of  *)
(* the file's own spin lock, my_lock and my_unlock, stand in comments in   *)
(* the same places (Runs).                                                 *)
(*                                                                         *)
(* The exchange and the store of the lock are atomic and sequentially      *)
(* consistent.  The increment is a load and a store, as race_condition.c   *)
(* spells out: without a lock increments get lost.                         *)
(***************************************************************************)
EXTENDS Naturals, FiniteSets

CONSTANTS Workers,  \* the threads, two in main
          Rounds    \* increments of each, 100000

VARIABLES locked,   \* the lock, or whether the mutex is taken
          counter,  \* what the workers increment
          pc,       \* of each worker, see TypeOK
          i,        \* of each worker: the loop variable
          reg       \* of each worker: the register it increments in

vars == <<locked, counter, pc, i, reg>>

Critical == {"load", "store", "unlock"}

TypeOK ==
    /\ locked \in BOOLEAN
    /\ counter \in Nat
    /\ pc \in [Workers -> {"lock", "yield", "done"} \cup Critical]
    /\ i \in [Workers -> 0 .. Rounds]
    /\ reg \in [Workers -> Nat]

Begin(n) == IF n < Rounds THEN "lock" ELSE "done"

\* my_init, and main creates the threads.
Init ==
    /\ locked = FALSE
    /\ counter = 0
    /\ pc = [w \in Workers |-> Begin(0)]
    /\ i = [w \in Workers |-> 0]
    /\ reg = [w \in Workers |-> 0]

Step(w, from, to) == pc[w] = from /\ pc' = [pc EXCEPT ![w] = to]

-----------------------------------------------------------------------------
\* Faulty variant: the lock is only looked at, and set by a later store.
LookThenLock(w) ==
    /\ Step(w, "lock", IF locked THEN "yield" ELSE "load")
    /\ UNCHANGED <<locked, counter, i, reg>>

\* my_lock: atomic_exchange tells whether the lock was free.
Exchange(w) ==
    /\ Step(w, "lock", IF locked THEN "yield" ELSE "load")
    /\ locked' = TRUE
    /\ UNCHANGED <<counter, i, reg>>

\* pthread_mutex_lock: the worker sleeps while the mutex is taken.
MutexLock(w) == ~locked /\ Exchange(w)

\* Faulty variant: a lock that was not got is given back all the same.
UnlockOnYield(w) ==
    /\ Step(w, "yield", "lock")
    /\ locked' = FALSE
    /\ UNCHANGED <<counter, i, reg>>

Yield(w) ==
    /\ Step(w, "yield", "lock")
    /\ UNCHANGED <<locked, counter, i, reg>>

\* counter += 1
Load(w) ==
    /\ Step(w, "load", "store")
    /\ reg' = [reg EXCEPT ![w] = counter]
    /\ UNCHANGED <<locked, counter, i>>

Store(w) ==
    /\ Step(w, "store", "unlock")
    /\ counter' = reg[w] + 1
    /\ UNCHANGED <<locked, i, reg>>

\* Faulty variant: the lock is not given back.
KeepLock(w) ==
    /\ Step(w, "unlock", Begin(i[w] + 1))
    /\ i' = [i EXCEPT ![w] = @ + 1]
    /\ UNCHANGED <<locked, counter, reg>>

\* my_unlock, or pthread_mutex_unlock
Unlock(w) ==
    /\ Step(w, "unlock", Begin(i[w] + 1))
    /\ locked' = FALSE
    /\ i' = [i EXCEPT ![w] = @ + 1]
    /\ UNCHANGED <<counter, reg>>

-----------------------------------------------------------------------------
\* A worker with my_lock and my_unlock, and the worker of the file.
Runs(w) == Exchange(w) \/ Yield(w) \/ Load(w) \/ Store(w) \/ Unlock(w)
MutexRuns(w) == MutexLock(w) \/ Load(w) \/ Store(w) \/ Unlock(w)

\* pthread_join lets main go on when all are done.
Terminated == \A w \in Workers : pc[w] = "done"
Joined == Terminated /\ UNCHANGED vars

Next == Joined \/ \E w \in Workers : Runs(w)

MutexNext == Joined \/ \E w \in Workers : MutexRuns(w)

Spec == Init /\ [][Next]_vars
MutexSpec == Init /\ [][MutexNext]_vars

\* The kernel schedules every thread; neither lock promises more.
FairSpec == Spec /\ \A w \in Workers : WF_vars(Runs(w))
FairMutexSpec == MutexSpec /\ \A w \in Workers : WF_vars(MutexRuns(w))

-----------------------------------------------------------------------------
(* Properties                                                              *)

\* One worker at a time is between lock and unlock, and the lock tells.
MutualExclusion ==
    /\ \A v, w \in Workers : pc[v] \in Critical /\ pc[w] \in Critical => v = w
    /\ locked <=> \E w \in Workers : pc[w] \in Critical

\* The increments made: the k-th of worker w.
Increments ==
    {s \in Workers \X (1 .. Rounds) :
        \/ s[2] <= i[s[1]]
        \/ pc[s[1]] = "unlock" /\ s[2] = i[s[1]] + 1}

\* No increment is lost: the counter is how many the workers have made, so
\* that main prints Rounds for each of them.
CounterExact == counter = Cardinality(Increments)

\* Every worker gets the lock as often as it needs it.
Terminates == <>Terminated

=============================================================================
