---------------------------- MODULE SharedMemory ----------------------------
(***************************************************************************)
(* sem-07-synchronization: store_buffering.c, store_buffering_bye.c,       *)
(* data_race.c, race_condition.c and atomic.c.  Two threads run a few      *)
(* instructions over shared integers on an x86 processor.                  *)
(*                                                                         *)
(* A plain store waits in the buffer of its processor before memory has    *)
(* it, and is seen until then by its own thread only.  An atomic store or  *)
(* addition is a locked instruction: the buffer is emptied first.  What    *)
(* else a compiler may make of the data races, such as a load moved before *)
(* a store or rounds of a loop put together, has outcomes these have too.  *)
(***************************************************************************)
EXTENDS Naturals, Sequences

CONSTANT Rounds  \* how often a worker increments, 100000

ASSUME RaceAssumption == Rounds \in Nat \ {0}

VARIABLES program,  \* the file that runs
          main,     \* main: run, exited
          mem,      \* the shared integers
          buffer,   \* of each thread: its stores that memory has yet to get
          next,     \* of each thread: the place of its next instruction
          reg       \* of each thread: the register it loads to

vars == <<program, main, mem, buffer, next, reg>>

Threads == {1, 2}
Shared == {"x", "y", "read_x", "read_y", "var", "zero_observed", "counter"}

-----------------------------------------------------------------------------
(* The instructions and the programs                                       *)

\* loc = 1, loc = reg, loc = reg + 1
Put(what, loc) == [op |-> "store", what |-> what, loc |-> loc]
Get(loc) == [op |-> "load", what |-> "reg", loc |-> loc]
AtomicPut(loc) == [op |-> "exchange", what |-> "one", loc |-> loc]
AtomicAdd(loc) == [op |-> "add", what |-> "one", loc |-> loc]
\* The next instruction runs only if the register is 0.
IfZero == [op |-> "if", what |-> "reg", loc |-> "var"]

StoreBuffering ==
    << <<Put("one", "x"), Get("y"), Put("reg", "read_y")>>,
       <<Put("one", "y"), Get("x"), Put("reg", "read_x")>> >>

StoreBufferingBye ==
    << <<AtomicPut("x"), Get("y"), Put("reg", "read_y")>>,
       <<AtomicPut("y"), Get("x"), Put("reg", "read_x")>> >>

DataRace ==
    << <<Put("one", "var")>>,
       <<Get("var"), IfZero, Put("one", "zero_observed")>> >>

\* counter += 1 in a loop: a load in the odd places, a store in the even.
RaceCondition ==
    [t \in Threads |->
       [k \in 1 .. 2 * Rounds |->
          IF k % 2 = 1 THEN Get("counter") ELSE Put("next", "counter")]]

Atomic == [t \in Threads |-> [k \in 1 .. Rounds |-> AtomicAdd("counter")]]

Code ==
    [store_buffering |-> StoreBuffering, bye |-> StoreBufferingBye,
     data_race |-> DataRace, race_condition |-> RaceCondition,
     atomic |-> Atomic]

Programs == DOMAIN Code

Zeros == [l \in Shared |-> 0]

Init ==
    /\ program \in Programs
    /\ main = "run"
    /\ mem = Zeros
    /\ buffer = [t \in Threads |-> <<>>]
    /\ next = [t \in Threads |-> 1]
    /\ reg = [t \in Threads |-> 0]

-----------------------------------------------------------------------------
(* The processors                                                          *)

\* t executes its next instruction, an op.
Step(t, op) ==
    /\ main = "run"
    /\ next[t] \in DOMAIN Code[program][t]
    /\ Code[program][t][next[t]].op = op
    /\ UNCHANGED <<program, main>>

Loc(t) == Code[program][t][next[t]].loc

Value(t) ==
    [one |-> 1, reg |-> reg[t], next |-> reg[t] + 1]
        [Code[program][t][next[t]].what]

Advance(t) == next' = [next EXCEPT ![t] = @ + 1]

\* What t sees: its own youngest store to l, or what memory has.
Seen(t, l) ==
    LET own == {k \in 1 .. Len(buffer[t]) : buffer[t][k].loc = l}
    IN  IF own = {} THEN mem[l]
        ELSE buffer[t][CHOOSE k \in own : \A j \in own : j <= k].val

Buffered(t, v) ==
    buffer' = [buffer EXCEPT ![t] = Append(@, [loc |-> Loc(t), val |-> v])]

Store(t) ==
    /\ Step(t, "store")
    /\ Buffered(t, Value(t))
    /\ Advance(t)
    /\ UNCHANGED <<mem, reg>>

Load(t) ==
    /\ Step(t, "load")
    /\ reg' = [reg EXCEPT ![t] = Seen(t, Loc(t))]
    /\ Advance(t)
    /\ UNCHANGED <<mem, buffer>>

Branch(t) ==
    /\ Step(t, "if")
    /\ next' = [next EXCEPT ![t] = IF reg[t] = 0 THEN @ + 1 ELSE @ + 2]
    /\ UNCHANGED <<mem, buffer, reg>>

\* Faulty variant: an atomic store with memory_order_release.
ExchangeRelease(t) ==
    /\ Step(t, "exchange")
    /\ Buffered(t, 1)
    /\ Advance(t)
    /\ UNCHANGED <<mem, reg>>

\* atomic_store
Exchange(t) ==
    /\ Step(t, "exchange")
    /\ buffer[t] = <<>>
    /\ mem' = [mem EXCEPT ![Loc(t)] = 1]
    /\ Advance(t)
    /\ UNCHANGED <<buffer, reg>>

\* Faulty variant: an addition without the lock prefix.
AddUnlocked(t) ==
    /\ Step(t, "add")
    /\ Buffered(t, Seen(t, Loc(t)) + 1)
    /\ Advance(t)
    /\ UNCHANGED <<mem, reg>>

\* atomic_fetch_add
Add(t) ==
    /\ Step(t, "add")
    /\ buffer[t] = <<>>
    /\ mem' = [mem EXCEPT ![Loc(t)] = @ + 1]
    /\ Advance(t)
    /\ UNCHANGED <<buffer, reg>>

\* Memory gets the oldest store of t.
Drain(t) ==
    /\ buffer[t] # <<>>
    /\ mem' = [mem EXCEPT ![Head(buffer[t]).loc] = Head(buffer[t]).val]
    /\ buffer' = [buffer EXCEPT ![t] = Tail(@)]
    /\ UNCHANGED <<program, main, next, reg>>

-----------------------------------------------------------------------------
(* main                                                                    *)

\* A thread that has returned has its stores in memory.
Returned(t) == next[t] > Len(Code[program][t]) /\ buffer[t] = <<>>

Joined == main = "run" /\ \A t \in Threads : Returned(t)

BothZero == mem["read_x"] = 0 /\ mem["read_y"] = 0

Repeats == program \in {"store_buffering", "bye"} /\ ~BothZero

\* The do loop: all is zero again, and the threads are created anew.
Again ==
    /\ Joined /\ Repeats
    /\ mem' = Zeros
    /\ next' = [t \in Threads |-> 1]
    /\ reg' = [t \in Threads |-> 0]
    /\ UNCHANGED <<program, main, buffer>>

Exit ==
    /\ Joined /\ ~Repeats
    /\ main' = "exited"
    /\ UNCHANGED <<program, mem, buffer, next, reg>>

-----------------------------------------------------------------------------
Runs(t) ==
    Store(t) \/ Load(t) \/ Branch(t) \/ Exchange(t) \/ Add(t) \/ Drain(t)

Next == Again \/ Exit \/ \E t \in Threads : Runs(t)

Spec == Init /\ [][Next]_vars

-----------------------------------------------------------------------------
(* Properties                                                              *)

\* store_buffering_bye.c: with atomics one of the threads sees what the other
\* has stored, in every round, and the loop does not end.
NeverBothZero ==
    program = "bye" => main = "run" /\ (Joined => ~BothZero)

\* Atomic increments add up.  Of plain ones the last of a thread, and one of
\* the other's before or after it, are all that is sure to count.
CountsBounded ==
    main = "exited" =>
        /\ program = "atomic" => mem["counter"] = 2 * Rounds
        /\ program = "race_condition" =>
              /\ mem["counter"] <= 2 * Rounds
              /\ mem["counter"] >= IF Rounds = 1 THEN 1 ELSE 2

=============================================================================
