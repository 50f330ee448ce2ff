---------------------------- MODULE ThreadsProofs ----------------------------
(***************************************************************************)
(* What threads that share memory can rely on: the litmus program with     *)
(* atomics, the sums of atomic and of plain increments, the exclusion and  *)
(* the exact count of the spin lock, and the turns of the condition        *)
(* variable, for any number of rounds and any finite set of workers.       *)
(***************************************************************************)
EXTENDS MCThreads, SequenceTheorems, FiniteSetTheorems, TLAPS

-----------------------------------------------------------------------------
(* store_buffering_bye.c                                                   *)

\* What t stores and waits to see of the other.
Own(t) == IF t = 1 THEN "x" ELSE "y"
Result(t) == IF t = 1 THEN "read_y" ELSE "read_x"

\* A thread past its exchange has it in memory, its load gave 0 or 1, and the
\* result is in its buffer or in memory.  Of two that have loaded one has seen
\* the other's store.
ByeInv ==
    program = "bye" =>
        /\ main = "run"
        /\ mem \in [Shared -> {0, 1}]
        /\ reg \in [Threads -> {0, 1}]
        /\ next \in [Threads -> 1 .. 4]
        /\ DOMAIN buffer = Threads
        /\ \A t \in Threads :
              /\ next[t] > 1 => mem[Own(t)] = 1
              /\ \/ buffer[t] = <<>>
                 \/ /\ next[t] = 4
                    /\ buffer[t] = <<[loc |-> Result(t), val |-> reg[t]]>>
              /\ next[t] = 4 /\ buffer[t] = <<>> => mem[Result(t)] = reg[t]
        /\ next[1] > 2 /\ next[2] > 2 => reg[1] = 1 \/ reg[2] = 1

\* The program as a table.
LEMMA ByeCode ==
    /\ Code["bye"] = StoreBufferingBye
    /\ \A t \in Threads :
          /\ DOMAIN Code["bye"][t] = 1 .. 3
          /\ Len(Code["bye"][t]) = 3
          /\ Code["bye"][t][1] = AtomicPut(Own(t))
          /\ Code["bye"][t][2] = Get(Own(3 - t))
          /\ Code["bye"][t][3] = Put("reg", Result(t))
<1>1. Code["bye"] = StoreBufferingBye
  BY DEF Code
<1>2. /\ StoreBufferingBye[1] =
            <<AtomicPut("x"), Get("y"), Put("reg", "read_y")>>
      /\ StoreBufferingBye[2] =
            <<AtomicPut("y"), Get("x"), Put("reg", "read_x")>>
  BY DEF StoreBufferingBye
<1> QED
  BY <1>1, <1>2 DEF Threads, Own, Result

\* An instruction that is executed is one of the three, at its place.
LEMMA ByeOp ==
    ASSUME program = "bye", NEW t \in Threads, NEW op, Step(t, op)
    PROVE  \/ op = "exchange" /\ next[t] = 1 /\ Loc(t) = Own(t)
           \/ op = "load" /\ next[t] = 2 /\ Loc(t) = Own(3 - t)
           \/ /\ op = "store" /\ next[t] = 3
              /\ Loc(t) = Result(t) /\ Value(t) = reg[t]
<1>1. next[t] \in 1 .. 3 /\ Code["bye"][t][next[t]].op = op
  BY ByeCode DEF Step
<1>2. CASE next[t] = 1
  <2>1. Code["bye"][t][next[t]] = AtomicPut(Own(t))
    BY <1>2, ByeCode
  <2> QED
    BY <1>1, <1>2, <2>1 DEF Loc, AtomicPut
<1>3. CASE next[t] = 2
  <2>1. Code["bye"][t][next[t]] = Get(Own(3 - t))
    BY <1>3, ByeCode
  <2> QED
    BY <1>1, <1>3, <2>1 DEF Loc, Get
<1>4. CASE next[t] = 3
  <2>1. Code["bye"][t][next[t]] = Put("reg", Result(t))
    BY <1>4, ByeCode
  <2>2. Loc(t) = Result(t) /\ op = "store"
    BY <1>1, <2>1 DEF Loc, Put
  <2>3. Code[program][t][next[t]].what = "reg"
    BY <2>1 DEF Put
  <2>4. Value(t) = reg[t]
    BY <2>3 DEF Value
  <2> QED
    BY <1>4, <2>2, <2>4
<1> QED
  BY <1>1, <1>2, <1>3, <1>4

\* No thread has exchanged at the beginning, and both variables are 0.
LEMMA ByeInit == Init => ByeInv
  BY DEF Init, ByeInv, Zeros, Shared, Threads

\* Past its exchange, the variable of a thread is 1 in memory.
LEMMA ByeStep == ByeInv /\ [Next]_vars => ByeInv'
<1> SUFFICES ASSUME ByeInv, [Next]_vars, program = "bye" PROVE ByeInv'
  BY DEF ByeInv, Next, Again, Exit, Runs, Store, Load, Branch, Exchange, Add,
         Drain, Step, vars
<1> USE DEF ByeInv
<1>1. ASSUME NEW t \in Threads, Store(t) PROVE ByeInv'
  <2>1. Step(t, "store")
    BY <1>1 DEF Store
  <2>2. next[t] = 3 /\ Loc(t) = Result(t) /\ Value(t) = reg[t]
    BY <2>1, ByeOp
  <2>3. buffer[t] = <<>>
    BY <2>2
  <2>4. buffer' =
          [buffer EXCEPT ![t] = <<[loc |-> Result(t), val |-> reg[t]]>>]
    BY <1>1, <2>2, <2>3 DEF Store, Buffered
  <2> QED
    BY <1>1, <2>2, <2>4 DEF Store, Step, Advance, Threads
<1>2. ASSUME NEW t \in Threads, Load(t) PROVE ByeInv'
  <2>1. Step(t, "load")
    BY <1>2 DEF Load
  <2>2. next[t] = 2 /\ Loc(t) = Own(3 - t) /\ buffer[t] = <<>>
    BY <2>1, ByeOp
  <2>3. Seen(t, Own(3 - t)) = mem[Own(3 - t)]
    <3>1. {k \in 1 .. Len(buffer[t]) : buffer[t][k].loc = Own(3 - t)} = {}
      BY <2>2
    <3> QED
      BY <3>1 DEF Seen
  <2>4. reg' = [reg EXCEPT ![t] = mem[Own(3 - t)]]
    BY <1>2, <2>2, <2>3 DEF Load
  <2> QED
    BY <1>2, <2>2, <2>4 DEF Load, Step, Advance, Threads, Own, Shared
<1>3. ASSUME NEW t \in Threads, Exchange(t) PROVE ByeInv'
  <2>1. Step(t, "exchange")
    BY <1>3 DEF Exchange
  <2>2. next[t] = 1 /\ Loc(t) = Own(t)
    BY <2>1, ByeOp
  <2>3. mem' = [mem EXCEPT ![Own(t)] = 1]
    BY <1>3, <2>2 DEF Exchange
  <2> QED
    BY <1>3, <2>2, <2>3
    DEF Exchange, Step, Advance, Threads, Own, Result, Shared
<1>4. ASSUME NEW t \in Threads, Branch(t) \/ Add(t) PROVE FALSE
  <2>1. Step(t, "if") \/ Step(t, "add")
    BY <1>4 DEF Branch, Add
  <2> QED
    BY <2>1, ByeOp
<1>5. ASSUME NEW t \in Threads, Drain(t) PROVE ByeInv'
  <2>1. /\ next[t] = 4
        /\ buffer[t] = <<[loc |-> Result(t), val |-> reg[t]]>>
    BY <1>5 DEF Drain
  <2>2. /\ mem' = [mem EXCEPT ![Result(t)] = reg[t]]
        /\ buffer' = [buffer EXCEPT ![t] = <<>>]
    <3> DEFINE e == [loc |-> Result(t), val |-> reg[t]]
    <3>1. Head(<<e>>) = e /\ Tail(<<e>>) = <<>>
      OBVIOUS
    <3>2. e.loc = Result(t) /\ e.val = reg[t]
      OBVIOUS
    <3> HIDE DEF e
    <3>3. buffer[t] = <<e>>
      BY <2>1 DEF e
    <3> QED
      BY <1>5, <3>1, <3>2, <3>3 DEF Drain
  <2> QED
    BY <1>5, <2>1, <2>2 DEF Drain, Threads, Own, Result, Shared
<1>6. CASE Again
  BY <1>6 DEF Again, Zeros, Joined, Returned, Shared, Threads
<1>7. CASE Exit
  <2>1. \A t \in Threads : next[t] = 4 /\ buffer[t] = <<>>
    BY <1>7, ByeCode DEF Exit, Joined, Returned
  <2>2. ~BothZero
    BY <2>1 DEF BothZero, Threads, Result
  <2> QED
    BY <1>7, <2>2 DEF Exit, Repeats
<1>8. CASE UNCHANGED vars
  BY <1>8 DEF vars
<1> HIDE DEF ByeInv
<1> QED
  BY <1>1, <1>2, <1>3, <1>4, <1>5, <1>6, <1>7, <1>8, ZenonT(60)
  DEF Next, Runs

\* store_buffering_bye.c: with atomic stores no round leaves both threads with
\* the old value of the other's variable, so main never leaves its loop.
THEOREM AtomicsOrder == Spec => []NeverBothZero
<1>1. ByeInv => NeverBothZero
  <2> SUFFICES ASSUME ByeInv, program = "bye", Joined PROVE ~BothZero
    BY DEF ByeInv, NeverBothZero
  <2>1. \A t \in Threads : next[t] = 4 /\ buffer[t] = <<>>
    BY ByeCode DEF Joined, Returned, ByeInv
  <2> QED
    BY <2>1 DEF BothZero, Threads, Result, ByeInv
<1> QED
  BY <1>1, ByeInit, ByeStep, PTL DEF Spec

-----------------------------------------------------------------------------
(* Counting the instructions done                                          *)

\* A thread that goes on is one step more of the two together.
LEMMA OneMore ==
    ASSUME NEW f, NEW g, NEW t \in Threads,
           DOMAIN f = Threads, \A u \in Threads : f[u] \in Nat \ {0},
           g = [f EXCEPT ![t] = @ + 1]
    PROVE  /\ (g[1] - 1) + (g[2] - 1) = (f[1] - 1) + (f[2] - 1) + 1
           /\ (f[1] - 1) + (f[2] - 1) \in Nat
<1>1. \E a, b \in Nat \ {0} : f[1] = a /\ f[2] = b
  BY DEF Threads
<1>2. PICK a, b \in Nat \ {0} : f[1] = a /\ f[2] = b
  BY <1>1
<1>3. \/ g[1] = a + 1 /\ g[2] = b
      \/ g[1] = a /\ g[2] = b + 1
  BY <1>2 DEF Threads
<1> QED
  BY <1>2, <1>3

-----------------------------------------------------------------------------
(* atomic.c                                                                *)

\* Nothing waits in a buffer, and each instruction done counted once.
AtomicInv ==
    program = "atomic" =>
        /\ mem \in [Shared -> Nat]
        /\ next \in [Threads -> 1 .. Rounds + 1]
        /\ buffer = [t \in Threads |-> <<>>]
        /\ mem["counter"] = (next[1] - 1) + (next[2] - 1)
        /\ main = "exited" => \A t \in Threads : next[t] = Rounds + 1

\* atomic.c is Rounds additions in each thread.
LEMMA AtomicCode ==
    ASSUME Rounds \in Nat
    PROVE  \A t \in Threads :
              /\ DOMAIN Code["atomic"][t] = 1 .. Rounds
              /\ Len(Code["atomic"][t]) = Rounds
              /\ \A k \in 1 .. Rounds :
                    Code["atomic"][t][k] = AtomicAdd("counter")
<1>1. Code["atomic"] = Atomic
  BY DEF Code
<1>2. ASSUME NEW f, f = [k \in 1 .. Rounds |-> AtomicAdd("counter")]
      PROVE  Len(f) = Rounds
  BY <1>2
<1> QED
  BY <1>1, <1>2 DEF Atomic

\* So a step of a thread that runs it is an addition to the counter.
LEMMA AtomicOp ==
    ASSUME Rounds \in Nat, program = "atomic", NEW t \in Threads, NEW op,
           Step(t, op)
    PROVE  op = "add" /\ next[t] \in 1 .. Rounds /\ Loc(t) = "counter"
<1>1. next[t] \in 1 .. Rounds /\ Code["atomic"][t][next[t]].op = op
  BY AtomicCode DEF Step
<1>2. Code["atomic"][t][next[t]] = AtomicAdd("counter")
  BY <1>1, AtomicCode
<1> QED
  BY <1>1, <1>2 DEF Loc, AtomicAdd

\* The counter is the number of additions done.
LEMMA AtomicStep ==
    ASSUME Rounds \in Nat, AtomicInv, [Next]_vars
    PROVE  AtomicInv'
<1> SUFFICES ASSUME program = "atomic" PROVE AtomicInv'
  BY DEF AtomicInv, Next, Again, Exit, Runs, Store, Load, Branch, Exchange,
         Add, Drain, Step, vars
<1> USE DEF AtomicInv
<1>1. ASSUME NEW t \in Threads, Add(t) PROVE AtomicInv'
  <2>1. Step(t, "add")
    BY <1>1 DEF Add
  <2>2. next[t] \in 1 .. Rounds /\ Loc(t) = "counter"
    BY <2>1, AtomicOp
  <2>3. /\ mem' = [mem EXCEPT !["counter"] = @ + 1]
        /\ next' = [next EXCEPT ![t] = @ + 1]
        /\ main = "run" /\ UNCHANGED <<program, main, buffer>>
    BY <1>1, <2>2 DEF Add, Advance, Step
  <2>4. mem["counter"] \in Nat /\ "counter" \in Shared
    BY DEF Shared
  <2>5. /\ mem' \in [Shared -> Nat]
        /\ mem'["counter"] = mem["counter"] + 1
    BY <2>3, <2>4, SMTT(40)
  <2>6. next' \in [Threads -> 1 .. Rounds + 1]
    BY <2>2, <2>3
  <2>7. mem'["counter"] = (next'[1] - 1) + (next'[2] - 1)
    <3>1. DOMAIN next = Threads /\ \A u \in Threads : next[u] \in Nat \ {0}
      OBVIOUS
    <3>2. (next'[1] - 1) + (next'[2] - 1) = (next[1] - 1) + (next[2] - 1) + 1
      BY <2>3, <3>1, OneMore
    <3> QED
      BY <2>5, <3>2
  <2> QED
    BY <2>3, <2>5, <2>6, <2>7
<1>2. ASSUME NEW t \in Threads,
             Store(t) \/ Load(t) \/ Branch(t) \/ Exchange(t)
      PROVE  FALSE
  <2>1. \/ Step(t, "store") \/ Step(t, "load")
        \/ Step(t, "if") \/ Step(t, "exchange")
    BY <1>2 DEF Store, Load, Branch, Exchange
  <2> QED
    BY <2>1, AtomicOp
<1>3. ASSUME NEW t \in Threads, Drain(t) PROVE FALSE
  BY <1>3 DEF Drain
<1>4. Again => FALSE
  BY DEF Again, Repeats
<1>5. CASE Exit
  BY <1>5, AtomicCode DEF Exit, Joined, Returned, Threads
<1>6. CASE UNCHANGED vars
  BY <1>6 DEF vars
<1> QED
  BY <1>1, <1>2, <1>3, <1>4, <1>5, <1>6 DEF Next, Runs

-----------------------------------------------------------------------------
(* race_condition.c                                                        *)

Entries == [loc : {"counter"}, val : Nat]

\* All instructions done so far, two for an increment.
Steps == (next[1] - 1) + (next[2] - 1)

RaceTypes ==
    /\ mem \in [Shared -> Nat]
    /\ reg \in [Threads -> Nat]
    /\ next \in [Threads -> 1 .. 2 * Rounds + 1]
    /\ buffer \in [Threads -> Seq(Entries)]

\* What is stored or to be stored is at most the increments begun.
AtMost ==
    /\ 2 * mem["counter"] <= Steps
    /\ \A t \in Threads : \A k \in 1 .. Len(buffer[t]) :
          2 * buffer[t][k].val <= Steps
    /\ \A t \in Threads : next[t] % 2 = 0 => 2 * reg[t] + 1 <= Steps

\* A thread never sees less than 1 after its own first store, so that its last
\* store is of 2 at least; the very last store of both is one of these.
Visible(t) ==
    /\ \A k \in 1 .. Len(buffer[t]) : buffer[t][k].val >= 1
    /\ next[t] > 2 /\ buffer[t] = <<>> => mem["counter"] >= 1
    /\ next[t] > 3 => reg[t] >= 1
    /\ next[t] = 2 * Rounds + 1 /\ Rounds > 1 /\ buffer[t] # <<>> =>
          buffer[t][Len(buffer[t])].val >= 2

AtLeast == \A t \in Threads : Visible(t)

AtEnd ==
    /\ Rounds > 1 /\ (\A t \in Threads :
                        next[t] = 2 * Rounds + 1 /\ buffer[t] = <<>>) =>
          mem["counter"] >= 2
    /\ main = "exited" => \A t \in Threads :
                             next[t] = 2 * Rounds + 1 /\ buffer[t] = <<>>

RaceInv ==
    program = "race_condition" => RaceTypes /\ AtMost /\ AtLeast /\ AtEnd

\* race_condition.c alternates loads of the counter and stores of one more.
LEMMA RaceCode ==
    ASSUME Rounds \in Nat
    PROVE  \A t \in Threads :
              /\ DOMAIN Code["race_condition"][t] = 1 .. 2 * Rounds
              /\ Len(Code["race_condition"][t]) = 2 * Rounds
              /\ \A k \in 1 .. 2 * Rounds :
                    Code["race_condition"][t][k] =
                        IF k % 2 = 1 THEN Get("counter")
                        ELSE Put("next", "counter")
<1>1. Code["race_condition"] = RaceCondition
  BY DEF Code
<1>2. ASSUME NEW f, f = [k \in 1 .. 2 * Rounds |->
                           IF k % 2 = 1 THEN Get("counter")
                           ELSE Put("next", "counter")]
      PROVE  Len(f) = 2 * Rounds
  BY <1>2
<1> QED
  BY <1>1, <1>2 DEF RaceCondition

\* So a step is a load at an odd place, or a store at an even one.
LEMMA RaceOp ==
    ASSUME Rounds \in Nat, program = "race_condition", NEW t \in Threads,
           NEW op, Step(t, op)
    PROVE  /\ next[t] \in 1 .. 2 * Rounds
           /\ Loc(t) = "counter"
           /\ \/ op = "load" /\ next[t] % 2 = 1
              \/ op = "store" /\ next[t] % 2 # 1 /\ Value(t) = reg[t] + 1
<1>1. /\ next[t] \in 1 .. 2 * Rounds
      /\ Code["race_condition"][t][next[t]].op = op
  BY RaceCode DEF Step
<1>2. CASE next[t] % 2 = 1
  <2>1. Code["race_condition"][t][next[t]] = Get("counter")
    BY <1>1, <1>2, RaceCode
  <2> QED
    BY <1>1, <1>2, <2>1 DEF Loc, Get
<1>3. CASE next[t] % 2 # 1
  <2>1. Code["race_condition"][t][next[t]] = Put("next", "counter")
    BY <1>1, <1>3, RaceCode
  <2>2. Loc(t) = "counter" /\ op = "store"
    BY <1>1, <2>1 DEF Loc, Put
  <2>3. Code[program][t][next[t]].what = "next"
    BY <2>1 DEF Put
  <2>4. Value(t) = reg[t] + 1
    BY <2>3 DEF Value
  <2> QED
    BY <1>1, <1>3, <2>2, <2>4
<1> QED
  BY <1>2, <1>3

\* A thread sees its own youngest store, or memory when it has none waiting.
LEMMA RaceSeen ==
    ASSUME NEW t \in Threads, RaceTypes
    PROVE  Seen(t, "counter") =
             IF buffer[t] = <<>> THEN mem["counter"]
             ELSE buffer[t][Len(buffer[t])].val
<1> DEFINE own == {k \in 1 .. Len(buffer[t]) : buffer[t][k].loc = "counter"}
<1>1. buffer[t] \in Seq(Entries) /\ Len(buffer[t]) \in Nat
  BY DEF RaceTypes
<1>2. own = 1 .. Len(buffer[t])
  <2>1. \A k \in 1 .. Len(buffer[t]) : buffer[t][k] \in Entries
    BY <1>1
  <2> QED
    BY <2>1 DEF Entries
<1>3. CASE buffer[t] = <<>>
  BY <1>2, <1>3 DEF Seen
<1>4. CASE buffer[t] # <<>>
  <2>1. Len(buffer[t]) \in own /\ \A j \in own : j <= Len(buffer[t])
    BY <1>1, <1>2, <1>4
  <2>2. \A k \in own : (\A j \in own : j <= k) => k = Len(buffer[t])
    BY <1>1, <1>2, <2>1
  <2>3. (CHOOSE k \in own : \A j \in own : j <= k) = Len(buffer[t])
    <3> HIDE DEF own
    <3> QED
      BY <2>1, <2>2
  <2>4. own # {}
    BY <2>1
  <2>5. Seen(t, "counter") =
          buffer[t][CHOOSE k \in own : \A j \in own : j <= k].val
    BY <2>4, Zenon DEF Seen
  <2> QED
    <3> HIDE DEF own
    <3> QED
      BY <1>4, <2>3, <2>5, Zenon
<1> QED
  BY <1>3, <1>4

\* The counter is 0, and so are the increments begun.
LEMMA RaceInit == Rounds \in Nat \ {0} /\ Init => RaceInv
<1> SUFFICES ASSUME Rounds \in Nat \ {0}, Init, program = "race_condition"
             PROVE  RaceTypes /\ AtMost /\ AtLeast /\ AtEnd
  BY DEF RaceInv
<1>1. /\ next = [t \in Threads |-> 1] /\ reg = [t \in Threads |-> 0]
      /\ buffer = [t \in Threads |-> <<>>] /\ main = "run"
      /\ mem = [l \in Shared |-> 0] /\ mem["counter"] = 0
  BY DEF Init, Zeros, Shared
<1>2. RaceTypes
  BY <1>1 DEF RaceTypes
<1>3. AtMost
  BY <1>1 DEF AtMost, Steps, Threads
<1>4. AtLeast
  BY <1>1 DEF AtLeast, Visible
<1>5. AtEnd
  BY <1>1 DEF AtEnd, Threads
<1> QED
  BY <1>2, <1>3, <1>4, <1>5

\* A store puts a value of at most the increments begun into the buffer.
LEMMA RaceStore ==
    ASSUME Rounds \in Nat \ {0}, program = "race_condition", RaceInv,
           NEW t \in Threads, Store(t)
    PROVE  RaceInv'
<1> DEFINE e == [loc |-> "counter", val |-> reg[t] + 1]
<1>1. Step(t, "store")
  BY DEF Store
<1>2. /\ next[t] \in 1 .. 2 * Rounds /\ next[t] % 2 = 0
      /\ Loc(t) = "counter" /\ Value(t) = reg[t] + 1
  <2>1. /\ next[t] \in 1 .. 2 * Rounds /\ next[t] % 2 # 1
        /\ Loc(t) = "counter" /\ Value(t) = reg[t] + 1
    BY <1>1, RaceOp
  <2>2. \A n \in Nat : n % 2 # 1 => n % 2 = 0
    OBVIOUS
  <2> QED
    BY <2>1, <2>2
<1>3. /\ buffer' = [buffer EXCEPT ![t] = Append(@, e)]
      /\ next' = [next EXCEPT ![t] = @ + 1]
      /\ main = "run" /\ UNCHANGED <<program, main, mem, reg>>
  BY <1>1, <1>2 DEF Store, Step, Buffered, Advance
<1>4. RaceTypes /\ AtMost /\ AtLeast /\ AtEnd
  BY DEF RaceInv
<1>5. e \in Entries /\ e.val = reg[t] + 1 /\ reg[t] \in Nat
  BY <1>4 DEF RaceTypes, Entries
<1> HIDE DEF e
<1>6. /\ buffer'[t] \in Seq(Entries)
      /\ Len(buffer'[t]) = Len(buffer[t]) + 1
      /\ \A k \in 1 .. Len(buffer[t]) : buffer'[t][k] = buffer[t][k]
      /\ buffer'[t][Len(buffer[t]) + 1] = e
      /\ Len(buffer[t]) \in Nat
  BY <1>3, <1>4, <1>5 DEF RaceTypes
<1>7. \A u \in Threads : u # t => buffer'[u] = buffer[u] /\ next'[u] = next[u]
  BY <1>3, <1>4 DEF RaceTypes
<1>8. next'[t] = next[t] + 1 /\ (next[t] + 1) % 2 = 1 /\ next[t] \in Nat
  <2>1. \A n \in Nat : n % 2 = 0 => (n + 1) % 2 = 1
    OBVIOUS
  <2>2. next[t] \in Nat /\ next'[t] = next[t] + 1
    BY <1>2, <1>3, <1>4 DEF RaceTypes
  <2> QED
    BY <1>2, <2>1, <2>2
<1>9. RaceTypes'
  BY <1>2, <1>3, <1>4, <1>6 DEF RaceTypes
<1>10. Steps' = Steps + 1 /\ Steps \in Nat
  <2>1. DOMAIN next = Threads /\ \A u \in Threads : next[u] \in Nat \ {0}
    BY <1>4 DEF RaceTypes
  <2> QED
    BY <1>3, <2>1, OneMore DEF Steps
<1>11. AtMost'
  <2>1. (2 * mem["counter"] <= Steps)'
    <3>1. mem["counter"] \in Nat /\ 2 * mem["counter"] <= Steps
      BY <1>4 DEF AtMost, RaceTypes, Shared
    <3> QED
      BY <1>3, <1>10, <3>1
  <2>2. 2 * e.val <= Steps'
    BY <1>2, <1>4, <1>5, <1>10 DEF AtMost
  <2>3. ASSUME NEW u \in Threads, NEW k \in 1 .. Len(buffer'[u])
        PROVE  2 * buffer'[u][k].val <= Steps'
    <3>1. CASE u = t /\ k = Len(buffer[t]) + 1
      BY <1>6, <2>2, <3>1
    <3>2. CASE ~(u = t /\ k = Len(buffer[t]) + 1)
      <4>1. k \in 1 .. Len(buffer[u]) /\ buffer'[u][k] = buffer[u][k]
        BY <1>6, <1>7, <2>3, <3>2
      <4>2. buffer[u][k].val \in Nat
        <5>1. buffer[u][k] \in Entries
          BY <1>4, <4>1 DEF RaceTypes
        <5> QED
          BY <5>1 DEF Entries
      <4>3. 2 * buffer[u][k].val <= Steps
        BY <1>4, <4>1 DEF AtMost
      <4> QED
        BY <1>10, <4>1, <4>2, <4>3
    <3> QED
      BY <3>1, <3>2
  <2>4. ASSUME NEW u \in Threads, next'[u] % 2 = 0
        PROVE  2 * reg'[u] + 1 <= Steps'
    <3>1. u # t
      BY <1>8, <2>4
    <3>2. next[u] % 2 = 0 /\ reg'[u] = reg[u]
      BY <1>3, <1>7, <2>4, <3>1
    <3>3. reg[u] \in Nat /\ 2 * reg[u] + 1 <= Steps
      BY <1>4, <3>2 DEF AtMost, RaceTypes
    <3> QED
      BY <1>10, <3>2, <3>3
  <2> QED
    BY <2>1, <2>3, <2>4 DEF AtMost
<1>12. AtLeast'
  <2>1. ASSUME NEW u \in Threads, u # t PROVE Visible(u)'
    BY <1>3, <1>4, <1>7, <2>1 DEF AtLeast, Visible
  <2>2. Visible(t)'
    <3>1. e.val >= 1 /\ (next[t] > 3 => reg[t] >= 1 /\ e.val >= 2)
      BY <1>4, <1>5 DEF AtLeast, Visible
    <3>2. \A k \in 1 .. Len(buffer'[t]) : buffer'[t][k].val >= 1
      <4>1. \A k \in 1 .. Len(buffer[t]) : buffer[t][k].val >= 1
        BY <1>4 DEF AtLeast, Visible
      <4> QED
        BY <1>6, <3>1, <4>1
    <3>3. buffer'[t] # <<>> /\ buffer'[t][Len(buffer'[t])] = e
      BY <1>6
    <3>4. /\ next'[t] > 3 => reg'[t] >= 1
          /\ next'[t] = 2 * Rounds + 1 /\ Rounds > 1 => e.val >= 2
      \* An even place above 2 is above 3.
      BY <1>2, <1>3, <1>8, <3>1
    <3> QED
      BY <3>2, <3>3, <3>4 DEF Visible
  <2> QED
    BY <2>1, <2>2 DEF AtLeast
<1>13. AtEnd'
  <2>1. buffer'[t] # <<>> /\ main' = "run"
    BY <1>3, <1>6
  <2> QED
    BY <2>1 DEF AtEnd
<1> QED
  BY <1>9, <1>11, <1>12, <1>13 DEF RaceInv

\* A load sees a value of at most the increments begun, and no 0 after a store.
LEMMA RaceLoad ==
    ASSUME Rounds \in Nat \ {0}, program = "race_condition", RaceInv,
           NEW t \in Threads, Load(t)
    PROVE  RaceInv'
<1>1. Step(t, "load")
  BY DEF Load
<1>2. /\ next[t] \in 1 .. 2 * Rounds /\ next[t] % 2 = 1
      /\ Loc(t) = "counter"
  BY <1>1, RaceOp
<1>3. RaceTypes /\ AtMost /\ AtLeast /\ AtEnd
  BY DEF RaceInv
<1> DEFINE v == IF buffer[t] = <<>> THEN mem["counter"]
                ELSE buffer[t][Len(buffer[t])].val
<1>4. /\ reg' = [reg EXCEPT ![t] = v]
      /\ next' = [next EXCEPT ![t] = @ + 1]
      /\ main = "run" /\ UNCHANGED <<program, main, mem, buffer>>
  BY <1>1, <1>2, <1>3, RaceSeen DEF Load, Step, Advance
<1>5. v \in Nat /\ 2 * v <= Steps /\ (next[t] > 2 => v >= 1)
  <2>1. CASE buffer[t] = <<>>
    BY <1>3, <2>1 DEF RaceTypes, AtMost, AtLeast, Visible, Shared
  <2>2. CASE buffer[t] # <<>>
    <3>1. /\ buffer[t] \in Seq(Entries)
          /\ Len(buffer[t]) \in 1 .. Len(buffer[t])
      BY <1>3, <2>2 DEF RaceTypes
    <3>2. buffer[t][Len(buffer[t])] \in Entries
      BY <3>1
    <3> QED
      BY <1>3, <2>2, <3>1, <3>2 DEF AtMost, AtLeast, Visible, Entries
  <2> QED
    BY <2>1, <2>2
<1> HIDE DEF v
<1>6. next'[t] = next[t] + 1 /\ next[t] \in Nat /\ reg'[t] = v
  BY <1>3, <1>4 DEF RaceTypes
<1>7. \A u \in Threads : u # t => next'[u] = next[u] /\ reg'[u] = reg[u]
  BY <1>3, <1>4 DEF RaceTypes
<1>8. RaceTypes'
  BY <1>2, <1>3, <1>4, <1>5 DEF RaceTypes
<1>9. Steps' = Steps + 1 /\ Steps \in Nat
  <2>1. DOMAIN next = Threads /\ \A u \in Threads : next[u] \in Nat \ {0}
    BY <1>3 DEF RaceTypes
  <2> QED
    BY <1>4, <2>1, OneMore DEF Steps
<1>10. AtMost'
  <2>1. (2 * mem["counter"] <= Steps)'
    BY <1>3, <1>4, <1>9 DEF AtMost, RaceTypes, Shared
  <2>2. ASSUME NEW u \in Threads, NEW k \in 1 .. Len(buffer'[u])
        PROVE  2 * buffer'[u][k].val <= Steps'
    <3>1. k \in 1 .. Len(buffer[u]) /\ buffer'[u][k] = buffer[u][k]
      BY <1>4, <2>2
    <3>2. buffer[u][k] \in Entries
      BY <1>3, <3>1 DEF RaceTypes
    <3>3. buffer[u][k].val \in Nat /\ 2 * buffer[u][k].val <= Steps
      BY <1>3, <3>1, <3>2 DEF AtMost, Entries
    <3> QED
      BY <1>9, <3>1, <3>3
  <2>3. ASSUME NEW u \in Threads, next'[u] % 2 = 0
        PROVE  2 * reg'[u] + 1 <= Steps'
    <3>1. CASE u = t
      BY <1>5, <1>6, <1>9, <3>1
    <3>2. CASE u # t
      <4>1. reg[u] \in Nat /\ 2 * reg[u] + 1 <= Steps
        BY <1>3, <1>7, <2>3, <3>2 DEF AtMost, RaceTypes
      <4> QED
        BY <1>7, <1>9, <3>2, <4>1
    <3> QED
      BY <3>1, <3>2
  <2> QED
    BY <2>1, <2>2, <2>3 DEF AtMost
<1>11. next'[t] # 2 * Rounds + 1
  <2>1. \A m \in Nat : (2 * m) % 2 = 0
    OBVIOUS
  <2>2. next[t] # 2 * Rounds
    BY <1>2, <2>1
  <2> QED
    BY <1>2, <1>6, <2>2
<1>12. AtLeast'
  <2>1. ASSUME NEW u \in Threads
        PROVE  /\ next'[u] > 2 /\ buffer'[u] = <<>> => mem'["counter"] >= 1
               /\ next'[u] > 3 => reg'[u] >= 1
    <3>1. CASE u = t
      \* An odd place above 1 is above 2.
      BY <1>2, <1>3, <1>4, <1>5, <1>6, <3>1 DEF AtLeast, Visible
    <3>2. CASE u # t
      BY <1>3, <1>4, <1>7, <3>2 DEF AtLeast, Visible
    <3> QED
      BY <3>1, <3>2
  <2> QED
    BY <1>3, <1>4, <1>7, <1>11, <2>1 DEF AtLeast, Visible
<1>13. AtEnd'
  BY <1>4, <1>11 DEF AtEnd
<1> QED
  BY <1>8, <1>10, <1>12, <1>13 DEF RaceInv

\* The youngest entry stays the youngest when the oldest goes.
LEMMA LastOfTail ==
    ASSUME NEW s \in Seq(Entries), s # <<>>
    PROVE  /\ Tail(s) = <<>> => Len(s) = 1
           /\ Tail(s) # <<>> => Tail(s)[Len(Tail(s))] = s[Len(s)]
<1>1. /\ Tail(s) \in Seq(Entries) /\ Len(Tail(s)) = Len(s) - 1
      /\ Len(s) \in Nat
  <2>1. Tail(s) \in Seq(Entries)
    OBVIOUS
  <2>2. Len(Tail(s)) = Len(s) - 1
    BY SMTT(40)
  <2> QED
    BY <2>1, <2>2
<1>2. PICK n \in Nat : Len(s) = n + 1
  <2>1. Len(s) # 0
    BY EmptySeq
  <2>2. \A l \in Nat : l # 0 => \E n \in Nat : l = n + 1
    <3>1. \A l \in Nat : l # 0 => l - 1 \in Nat /\ l = (l - 1) + 1
      OBVIOUS
    <3> QED
      BY <3>1
  <2> QED
    BY <1>1, <2>1, <2>2
<1> DEFINE rest == Tail(s)
<1>3. rest \in Seq(Entries) /\ Len(rest) = n
  BY <1>1, <1>2
<1>4. n # 0 => rest[n] = s[n + 1]
  BY <1>2
<1> HIDE DEF rest
<1>5. (rest = <<>> => n = 0) /\ (rest # <<>> => n # 0)
  BY <1>3, EmptySeq
<1>6. /\ rest = <<>> => Len(s) = 1
      /\ rest # <<>> => rest[Len(rest)] = s[Len(s)]
  BY <1>2, <1>3, <1>4, <1>5
<1> QED
  BY <1>6 DEF rest

\* The oldest store of a buffer reaches memory, within the same bounds.
LEMMA RaceDrain ==
    ASSUME Rounds \in Nat \ {0}, program = "race_condition", RaceInv,
           NEW t \in Threads, Drain(t)
    PROVE  RaceInv'
<1>1. RaceTypes /\ AtMost /\ AtLeast /\ AtEnd
  BY DEF RaceInv
<1> DEFINE h == Head(buffer[t])
<1>2. /\ buffer[t] \in Seq(Entries) /\ buffer[t] # <<>>
      /\ Len(buffer[t]) \in Nat /\ Len(buffer[t]) >= 1
  BY <1>1 DEF Drain, RaceTypes
<1>3. /\ h = buffer[t][1] /\ h \in Entries
      /\ Tail(buffer[t]) \in Seq(Entries)
      /\ Len(Tail(buffer[t])) = Len(buffer[t]) - 1
      /\ \A k \in 1 .. Len(buffer[t]) - 1 :
            Tail(buffer[t])[k] = buffer[t][k + 1]
  BY <1>2
<1>4. h.loc = "counter" /\ h.val \in Nat
  BY <1>3 DEF Entries
<1>5. h.val >= 1 /\ 2 * h.val <= Steps
  BY <1>1, <1>2, <1>3 DEF AtMost, AtLeast, Visible
<1>6. /\ mem' = [mem EXCEPT !["counter"] = h.val]
      /\ buffer' = [buffer EXCEPT ![t] = Tail(@)]
      /\ UNCHANGED <<program, main, next, reg>>
  BY <1>4 DEF Drain
<1> HIDE DEF h
<1>7. mem'["counter"] = h.val
  BY <1>1, <1>6 DEF RaceTypes, Shared
<1>8. /\ buffer'[t] = Tail(buffer[t])
      /\ \A u \in Threads : u # t => buffer'[u] = buffer[u]
  BY <1>1, <1>6 DEF RaceTypes
<1>9. RaceTypes'
  BY <1>1, <1>3, <1>4, <1>6 DEF RaceTypes
<1>10. Steps' = Steps
  BY <1>6 DEF Steps
<1>11. \A u \in Threads : \A k \in 1 .. Len(buffer'[u]) :
         \E j \in 1 .. Len(buffer[u]) : buffer'[u][k] = buffer[u][j]
  <2>1. ASSUME NEW k \in 1 .. Len(Tail(buffer[t]))
        PROVE  \E j \in 1 .. Len(buffer[t]) :
                  Tail(buffer[t])[k] = buffer[t][j]
    <3>1. /\ k + 1 \in 1 .. Len(buffer[t])
          /\ Tail(buffer[t])[k] = buffer[t][k + 1]
      BY <1>2, <1>3, <2>1
    <3> QED
      BY <3>1
  <2>2. ASSUME NEW u \in Threads, NEW k \in 1 .. Len(buffer'[u])
        PROVE  \E j \in 1 .. Len(buffer[u]) : buffer'[u][k] = buffer[u][j]
    <3>1. CASE u = t
      BY <1>8, <2>1, <2>2, <3>1
    <3>2. CASE u # t
      BY <1>8, <2>2, <3>2
    <3> QED
      BY <3>1, <3>2
  <2> QED
    BY <2>2
<1>12. AtMost'
  BY <1>1, <1>5, <1>6, <1>7, <1>10, <1>11 DEF AtMost
<1>13. AtLeast'
  <2>1. ASSUME NEW u \in Threads, NEW k \in 1 .. Len(buffer'[u])
        PROVE  buffer'[u][k].val >= 1
    BY <1>1, <1>11, <2>1 DEF AtLeast, Visible
  <2>2. ASSUME NEW u \in Threads, next'[u] = 2 * Rounds + 1, Rounds > 1,
               buffer'[u] # <<>>
        PROVE  buffer'[u][Len(buffer'[u])].val >= 2
    <3>1. CASE u = t
      <4>1. Tail(buffer[t])[Len(Tail(buffer[t]))] = buffer[t][Len(buffer[t])]
        BY <1>2, <1>8, <2>2, <3>1, LastOfTail
      <4> QED
        BY <1>1, <1>2, <1>6, <1>8, <2>2, <3>1, <4>1 DEF AtLeast, Visible
    <3>2. CASE u # t
      BY <1>1, <1>6, <1>8, <2>2, <3>2 DEF AtLeast, Visible
    <3> QED
      BY <3>1, <3>2
  <2> QED
    BY <1>1, <1>5, <1>6, <1>7, <2>1, <2>2 DEF AtLeast, Visible
<1>14. AtEnd'
  <2>1. next[t] = 2 * Rounds + 1 /\ Rounds > 1 /\ buffer'[t] = <<>>
          => h.val >= 2
    <3>1. ASSUME buffer'[t] = <<>> PROVE Len(buffer[t]) = 1
      BY <1>2, <1>8, <3>1, LastOfTail
    <3>2. ASSUME next[t] = 2 * Rounds + 1, Rounds > 1, buffer'[t] = <<>>
          PROVE  h.val >= 2
      <4>1. buffer[t][Len(buffer[t])].val >= 2
        BY <1>1, <1>2, <3>2 DEF AtLeast, Visible
      <4> QED
        BY <1>3, <3>1, <3>2, <4>1
    <3> QED
      BY <3>2
  <2> QED
    BY <1>1, <1>2, <1>6, <1>7, <2>1 DEF AtEnd
<1> QED
  BY <1>9, <1>12, <1>13, <1>14 DEF RaceInv

\* Every step of the two threads, their buffers and main.
LEMMA RaceStep ==
    ASSUME Rounds \in Nat \ {0}, RaceInv, [Next]_vars
    PROVE  RaceInv'
<1> SUFFICES ASSUME program = "race_condition" PROVE RaceInv'
  BY DEF RaceInv, Next, Again, Exit, Runs, Store, Load, Branch, Exchange,
         Add, Drain, Step, vars
<1>1. ASSUME NEW t \in Threads, Store(t) \/ Load(t) \/ Drain(t)
      PROVE  RaceInv'
  BY <1>1, RaceStore, RaceLoad, RaceDrain
<1>2. ASSUME NEW t \in Threads, Branch(t) \/ Exchange(t) \/ Add(t)
      PROVE  FALSE
  <2>1. Step(t, "if") \/ Step(t, "exchange") \/ Step(t, "add")
    BY <1>2 DEF Branch, Exchange, Add
  <2> QED
    BY <2>1, RaceOp
<1>3. Again => FALSE
  BY DEF Again, Repeats
<1>4. CASE Exit
  <2>1. RaceTypes /\ AtMost /\ AtLeast /\ AtEnd
    BY DEF RaceInv
  <2>2. \A t \in Threads : next[t] = 2 * Rounds + 1 /\ buffer[t] = <<>>
    <3>1. \A t \in Threads : Len(Code[program][t]) = 2 * Rounds
      BY RaceCode
    <3>2. \A t \in Threads :
            next[t] > Len(Code[program][t]) /\ buffer[t] = <<>>
      BY <1>4 DEF Exit, Joined, Returned
    <3>3. \A t \in Threads : next[t] \in 1 .. 2 * Rounds + 1
      BY <2>1 DEF RaceTypes
    <3> QED
      BY <3>1, <3>2, <3>3
  <2>3. UNCHANGED <<mem, buffer, next, reg>>
    BY <1>4 DEF Exit
  <2>4. RaceTypes' /\ AtMost' /\ AtLeast'
    BY <2>1, <2>3 DEF RaceTypes, AtMost, AtLeast, Visible, Steps
  <2>5. AtEnd'
    BY <2>1, <2>2, <2>3 DEF AtEnd
  <2> QED
    BY <2>4, <2>5 DEF RaceInv
<1>5. CASE UNCHANGED vars
  BY <1>5 DEF vars, RaceInv, RaceTypes, AtMost, AtLeast, Visible, AtEnd, Steps
<1> QED
  BY <1>1, <1>2, <1>3, <1>4, <1>5, SMTT(40) DEF Next, Runs

\* atomic.c and race_condition.c: the sum of atomic increments is exact; plain
\* ones may be lost, down to 2 whatever the number of rounds, and none is
\* counted twice.
THEOREM SumsBounded == Spec => []CountsBounded
<1>. Rounds \in Nat \ {0}
  BY RaceAssumption
<1>1. Init => AtomicInv /\ RaceInv
  <2>1. Init => AtomicInv
    BY DEF Init, AtomicInv, Zeros, Shared, Threads
  <2> QED
    BY <2>1, RaceInit
<1>2. AtomicInv /\ RaceInv /\ [Next]_vars => (AtomicInv /\ RaceInv)'
  BY AtomicStep, RaceStep
<1>3. AtomicInv /\ RaceInv => CountsBounded
  <2> SUFFICES ASSUME AtomicInv, RaceInv, main = "exited" PROVE CountsBounded
    BY DEF CountsBounded
  <2>1. program = "atomic" => mem["counter"] = 2 * Rounds
    BY DEF AtomicInv, Threads
  <2>2. CASE program = "race_condition"
    <3>1. RaceTypes /\ AtMost /\ AtLeast /\ AtEnd
      BY <2>2 DEF RaceInv
    <3>2. \A t \in Threads : next[t] = 2 * Rounds + 1 /\ buffer[t] = <<>>
      BY <3>1 DEF AtEnd
    <3>3. mem["counter"] \in Nat
      BY <3>1 DEF RaceTypes, Shared
    <3>4. Steps = 4 * Rounds
      BY <3>2 DEF Steps, Threads
    <3>5. 2 * mem["counter"] <= Steps
      BY <3>1 DEF AtMost
    <3>6. mem["counter"] >= 1 /\ (Rounds > 1 => mem["counter"] >= 2)
      BY <3>1, <3>2 DEF AtLeast, Visible, AtEnd, Threads
    <3> QED
      BY <2>2, <3>3, <3>4, <3>5, <3>6 DEF CountsBounded
  <2> QED
    BY <2>1, <2>2 DEF CountsBounded
<1> QED
  BY <1>1, <1>2, <1>3, PTL DEF Spec

-----------------------------------------------------------------------------
(* mutex.c                                                                 *)

\* TypeOK is not inductive: a worker that is not done has rounds left.
LockTyped ==
    /\ Locking!TypeOK
    /\ \A w \in Workers : pc[w] # "done" => i[w] < Rounds

\* A worker with rounds to do begins with the lock.
LEMMA LockBegin ==
    ASSUME NEW n \in 0 .. Rounds
    PROVE  /\ Locking!Begin(n) \in {"lock", "done"}
           /\ Locking!Begin(n) # "done" => n < Rounds
  BY DEF Locking!Begin

\* Workers begin well typed.
LEMMA LockTypedInit == Locking!Init => LockTyped
<1> SUFFICES ASSUME Locking!Init PROVE LockTyped
  OBVIOUS
<1>1. 0 \in 0 .. Rounds
  BY RaceAssumption
<1>2. /\ Locking!Begin(0) \in {"lock", "done"}
      /\ Locking!Begin(0) # "done" => 0 < Rounds
  BY <1>1, LockBegin
<1> QED
  BY <1>1, <1>2 DEF Locking!Init, LockTyped, Locking!TypeOK, Locking!Critical

\* Every step of a worker keeps the types.
LEMMA LockTypedStep == LockTyped /\ [Locking!Next]_(Locking!vars) => LockTyped'
<1> SUFFICES ASSUME LockTyped, [Locking!Next]_(Locking!vars) PROVE LockTyped'
  OBVIOUS
<1> USE RaceAssumption
        DEF LockTyped, Locking!TypeOK, Locking!Step, Locking!Critical
<1>1. ASSUME NEW w \in Workers, Locking!Exchange(w) PROVE LockTyped'
  BY <1>1 DEF Locking!Exchange
<1>2. ASSUME NEW w \in Workers, Locking!Yield(w) PROVE LockTyped'
  BY <1>2 DEF Locking!Yield
<1>3. ASSUME NEW w \in Workers, Locking!Load(w) PROVE LockTyped'
  BY <1>3 DEF Locking!Load
<1>4. ASSUME NEW w \in Workers, Locking!Store(w) PROVE LockTyped'
  BY <1>4 DEF Locking!Store
<1>5. ASSUME NEW w \in Workers, Locking!Unlock(w) PROVE LockTyped'
  <2>1. i[w] + 1 \in 0 .. Rounds
    BY <1>5 DEF Locking!Unlock
  <2>2. /\ Locking!Begin(i[w] + 1) \in {"lock", "done"}
        /\ Locking!Begin(i[w] + 1) # "done" => i[w] + 1 < Rounds
    BY <2>1, LockBegin
  <2> QED
    BY <1>5, <2>1, <2>2 DEF Locking!Unlock
<1>6. CASE UNCHANGED Locking!vars
  BY <1>6 DEF Locking!vars
<1> QED
  BY <1>1, <1>2, <1>3, <1>4, <1>5, <1>6
     DEF Locking!Next, Locking!Runs, Locking!Joined

\* Whatever the schedule, the variables keep their types: in particular no
\* worker goes through more rounds than its loop has.
THEOREM LockTypeCorrect == Locking!Spec => []Locking!TypeOK
<1>1. LockTyped => Locking!TypeOK
  BY DEF LockTyped
<1> QED
  BY <1>1, LockTypedInit, LockTypedStep, PTL DEF Locking!Spec

-----------------------------------------------------------------------------
\* At the beginning nobody is between my_lock and my_unlock.
LEMMA ExclusionInit == Locking!Init => MutualExclusion
  BY DEF Locking!Init, MutualExclusion, Locking!MutualExclusion,
         Locking!Critical, Locking!Begin

\* Only an exchange that returns 0 lets a worker in.
LEMMA ExclusionStep ==
    LockTyped /\ MutualExclusion /\ [Locking!Next]_(Locking!vars)
        => MutualExclusion'
<1> SUFFICES ASSUME LockTyped, MutualExclusion, [Locking!Next]_(Locking!vars)
             PROVE  MutualExclusion'
  OBVIOUS
<1> USE DEF LockTyped, Locking!TypeOK, MutualExclusion,
            Locking!MutualExclusion, Locking!Step, Locking!Critical
<1>1. ASSUME NEW w \in Workers, Locking!Exchange(w) PROVE MutualExclusion'
  BY <1>1 DEF Locking!Exchange
<1>2. ASSUME NEW w \in Workers, Locking!Yield(w) PROVE MutualExclusion'
  BY <1>2 DEF Locking!Yield
<1>3. ASSUME NEW w \in Workers, Locking!Load(w) PROVE MutualExclusion'
  BY <1>3 DEF Locking!Load
<1>4. ASSUME NEW w \in Workers, Locking!Store(w) PROVE MutualExclusion'
  BY <1>4 DEF Locking!Store
<1>5. ASSUME NEW w \in Workers, Locking!Unlock(w) PROVE MutualExclusion'
  BY <1>5 DEF Locking!Unlock, Locking!Begin
<1>6. CASE UNCHANGED Locking!vars
  BY <1>6 DEF Locking!vars
<1> QED
  BY <1>1, <1>2, <1>3, <1>4, <1>5, <1>6
     DEF Locking!Next, Locking!Runs, Locking!Joined

\* One worker at a time increments, and the lock is taken exactly then.
THEOREM Excludes == Locking!Spec => []MutualExclusion
<1> QED
  BY LockTypedInit, LockTypedStep, ExclusionInit, ExclusionStep, PTL
     DEF Locking!Spec

-----------------------------------------------------------------------------
\* A worker's register is up to date from its load to its store.
Fresh == \A w \in Workers : pc[w] = "store" => register[w] = counter

\* At the beginning no worker is about to store.
LEMMA FreshInit == Locking!Init => Fresh
  BY DEF Locking!Init, Fresh, Locking!Begin

\* Nobody else stores between a worker's load and its store.
LEMMA FreshStep ==
    LockTyped /\ MutualExclusion /\ Fresh /\ [Locking!Next]_(Locking!vars)
        => Fresh'
<1> SUFFICES ASSUME LockTyped, MutualExclusion, Fresh,
                    [Locking!Next]_(Locking!vars)
             PROVE  Fresh'
  OBVIOUS
<1> USE DEF LockTyped, Locking!TypeOK, Fresh, Locking!Step, Locking!Critical
<1>1. ASSUME NEW w \in Workers, Locking!Exchange(w) PROVE Fresh'
  BY <1>1 DEF Locking!Exchange
<1>2. ASSUME NEW w \in Workers, Locking!Yield(w) PROVE Fresh'
  BY <1>2 DEF Locking!Yield
<1>3. ASSUME NEW w \in Workers, Locking!Load(w) PROVE Fresh'
  BY <1>3 DEF Locking!Load
<1>4. ASSUME NEW w \in Workers, Locking!Store(w) PROVE Fresh'
  \* Nobody else is at its store.
  BY <1>4 DEF Locking!Store, MutualExclusion, Locking!MutualExclusion
<1>5. ASSUME NEW w \in Workers, Locking!Unlock(w) PROVE Fresh'
  BY <1>5 DEF Locking!Unlock, Locking!Begin
<1>6. CASE UNCHANGED Locking!vars
  BY <1>6 DEF Locking!vars
<1> QED
  BY <1>1, <1>2, <1>3, <1>4, <1>5, <1>6
     DEF Locking!Next, Locking!Runs, Locking!Joined

\* No increment overwrites another: each store adds one to what the counter
\* is at that moment, not to what it was at the load.
THEOREM IncrementsCount ==
    Locking!Spec =>
        [][\A w \in Workers :
              Locking!Store(w) => counter' = counter + 1]_(Locking!vars)
<1>1. Fresh =>
        [\A w \in Workers :
            Locking!Store(w) => counter' = counter + 1]_(Locking!vars)
  BY DEF Fresh, Locking!Store, Locking!Step
<1> QED
  BY <1>1, LockTypedInit, LockTypedStep, ExclusionInit, ExclusionStep,
     FreshInit, FreshStep, PTL DEF Locking!Spec

\* The increments made are finitely many, and of workers and rounds.
LEMMA FiniteIncrements ==
    IsFiniteSet(Locking!Increments)
<1>1. Rounds \in Nat /\ IsFiniteSet(Workers)
  BY RaceAssumption, ThreadsAssumption
<1>2. IsFiniteSet(1 .. Rounds)
  BY <1>1, FS_Interval
<1>3. IsFiniteSet(Workers \X (1 .. Rounds))
  BY <1>1, <1>2, FS_Product
<1>4. Locking!Increments \subseteq Workers \X (1 .. Rounds)
  BY DEF Locking!Increments
<1> QED
  BY <1>3, <1>4, FS_Subset

\* What SpinLock counts is what the theorems on finite sets are about.
LEMMA SameCardinality ==
    ASSUME NEW S
    PROVE  Locking!Cardinality(S) = Cardinality(S)
  BY DEF Locking!Cardinality, Cardinality

\* No increment at the beginning, and the counter is 0.
LEMMA ExactInit == Locking!Init => CounterExact
<1> SUFFICES ASSUME Locking!Init PROVE CounterExact
  OBVIOUS
<1>1. Locking!Increments = {}
  <2>1. \A w \in Workers : i[w] = 0 /\ pc[w] # "unlock"
    BY DEF Locking!Init, Locking!Begin
  <2>2. \A k \in 1 .. Rounds : ~(k <= 0)
    BY RaceAssumption
  <2> QED
    BY <2>1, <2>2 DEF Locking!Increments
<1> QED
  BY <1>1, FS_EmptySet, SameCardinality
     DEF Locking!Init, CounterExact, Locking!CounterExact

\* Only the store of the increment is one, and it is one more.
LEMMA ExactStep ==
    LockTyped /\ Fresh /\ CounterExact /\ [Locking!Next]_(Locking!vars)
        => CounterExact'
<1> SUFFICES ASSUME LockTyped, Fresh, CounterExact,
                    [Locking!Next]_(Locking!vars)
             PROVE  CounterExact'
  OBVIOUS
<1> USE RaceAssumption
        DEF LockTyped, Locking!TypeOK, Locking!Step, Locking!Critical
<1>1. ASSUME UNCHANGED counter, Locking!Increments' = Locking!Increments
      PROVE  CounterExact'
  BY <1>1 DEF CounterExact, Locking!CounterExact
<1>2. ASSUME NEW w \in Workers, Locking!Exchange(w) \/ Locking!Yield(w)
      PROVE  CounterExact'
  <2>1. UNCHANGED <<i, counter>>
        /\ \A v \in Workers : pc'[v] = "unlock" <=> pc[v] = "unlock"
    BY <1>2 DEF Locking!Exchange, Locking!Yield
  <2> QED
    BY <1>1, <2>1 DEF Locking!Increments
<1>3. ASSUME NEW w \in Workers, Locking!Load(w) PROVE CounterExact'
  <2>1. UNCHANGED <<i, counter>>
        /\ \A v \in Workers : pc'[v] = "unlock" <=> pc[v] = "unlock"
    BY <1>3 DEF Locking!Load
  <2> QED
    BY <1>1, <2>1 DEF Locking!Increments
<1>4. ASSUME NEW w \in Workers, Locking!Store(w) PROVE CounterExact'
  <2> DEFINE s == <<w, i[w] + 1>>
  <2>1. /\ i[w] \in Nat /\ i[w] + 1 \in 1 .. Rounds /\ pc[w] = "store"
        /\ i' = i /\ counter' = counter + 1 /\ pc'[w] = "unlock"
        /\ \A v \in Workers \ {w} : pc'[v] = pc[v]
    BY <1>4 DEF Locking!Store, Fresh
  <2>2. s \notin Locking!Increments
    BY <2>1 DEF Locking!Increments
  <2>3. Locking!Increments' = Locking!Increments \cup {s}
    <3>1. \A t \in Workers \X (1 .. Rounds) :
            t[1] = w /\ t[2] = i[w] + 1 <=> t = s
      OBVIOUS
    <3>2. s \in Workers \X (1 .. Rounds)
      BY <2>1
    <3> HIDE DEF s
    <3> QED
      BY <2>1, <3>1, <3>2 DEF Locking!Increments
  <2>4. Locking!Cardinality(Locking!Increments \cup {s})
          = Locking!Cardinality(Locking!Increments) + 1
    BY <2>2, FiniteIncrements, FS_AddElement, SameCardinality
  <2> QED
    BY <2>1, <2>3, <2>4 DEF CounterExact, Locking!CounterExact
<1>5. ASSUME NEW w \in Workers, Locking!Unlock(w) PROVE CounterExact'
  <2>1. /\ i[w] \in Nat /\ pc[w] = "unlock" /\ counter' = counter
        /\ i'[w] = i[w] + 1 /\ pc'[w] # "unlock"
        /\ \A v \in Workers \ {w} : pc'[v] = pc[v] /\ i'[v] = i[v]
    BY <1>5 DEF Locking!Unlock, Locking!Begin
  <2>2. \A k \in 1 .. Rounds :
          k <= i[w] + 1 <=> k <= i[w] \/ k = i[w] + 1
    BY <2>1
  <2>3. Locking!Increments' = Locking!Increments
    BY <2>1, <2>2 DEF Locking!Increments
  <2> QED
    BY <1>1, <2>1, <2>3
<1>6. CASE UNCHANGED Locking!vars
  BY <1>1, <1>6 DEF Locking!vars, Locking!Increments
<1> QED
  BY <1>2, <1>3, <1>4, <1>5, <1>6
     DEF Locking!Next, Locking!Runs, Locking!Joined

\* The counter of mutex.c is exact at every moment, and so it is when main
\* has joined the workers and prints it.
THEOREM CountsExactly == Locking!Spec => []CounterExact
<1> QED
  BY LockTypedInit, LockTypedStep, ExclusionInit, ExclusionStep, FreshInit,
     FreshStep, ExactInit, ExactStep, PTL DEF Locking!Spec

\* A worker that is done has been through all its rounds.
RoundsMade == \A w \in Workers : pc[w] = "done" => i[w] = Rounds

\* Workers never spin on a lock that nobody holds, and what main prints when
\* it has joined them is all their increments.
AllCounted ==
    /\ \/ Locking!Terminated
       \/ \E w \in Workers : pc[w] \in Locking!Critical
       \/ ~locked /\ \E w \in Workers : pc[w] \in {"lock", "yield"}
    /\ Locking!Terminated => counter = Cardinality(Workers) * Rounds

\* Only the last unlock of a worker ends it.
LEMMA RoundsMadeStep ==
    LockTyped /\ RoundsMade /\ [Locking!Next]_(Locking!vars) => RoundsMade'
<1> SUFFICES ASSUME LockTyped, RoundsMade, [Locking!Next]_(Locking!vars)
             PROVE  RoundsMade'
  OBVIOUS
<1> USE RaceAssumption
        DEF LockTyped, Locking!TypeOK, Locking!Step, RoundsMade
<1>1. ASSUME NEW w \in Workers,
             \/ Locking!Exchange(w) \/ Locking!Yield(w) \/ Locking!Load(w)
             \/ Locking!Store(w)
      PROVE  RoundsMade'
  BY <1>1
  DEF Locking!Exchange, Locking!Yield, Locking!Load, Locking!Store
<1>2. ASSUME NEW w \in Workers, Locking!Unlock(w) PROVE RoundsMade'
  <2>1. /\ i[w] + 1 \in 0 .. Rounds /\ i'[w] = i[w] + 1
        /\ pc'[w] = Locking!Begin(i[w] + 1)
        /\ \A v \in Workers \ {w} : pc'[v] = pc[v] /\ i'[v] = i[v]
    BY <1>2 DEF Locking!Unlock
  <2> QED
    BY <2>1 DEF Locking!Begin
<1>3. CASE UNCHANGED Locking!vars
  BY <1>3 DEF Locking!vars
<1> QED
  BY <1>1, <1>2, <1>3 DEF Locking!Next, Locking!Runs, Locking!Joined

\* No worker is done at the beginning, unless there are no rounds.
LEMMA RoundsMadeInit == Locking!Init => RoundsMade
  BY RaceAssumption DEF Locking!Init, Locking!Begin, RoundsMade

\* The increments of workers that are all done are those of all rounds.
LEMMA AllIncrements ==
    ASSUME LockTyped, MutualExclusion, CounterExact, RoundsMade
    PROVE  AllCounted
<1>1. ASSUME Locking!Terminated
      PROVE  counter = Cardinality(Workers) * Rounds
  <2>1. \A w \in Workers : i[w] = Rounds
    BY <1>1 DEF Locking!Terminated, RoundsMade
  <2>2. Locking!Increments = Workers \X (1 .. Rounds)
    BY <2>1, RaceAssumption DEF Locking!Increments
  <2>3. /\ IsFiniteSet(Workers) /\ IsFiniteSet(1 .. Rounds)
        /\ Cardinality(1 .. Rounds) = Rounds
    BY RaceAssumption, ThreadsAssumption, FS_Interval
  <2>4. Cardinality(Workers \X (1 .. Rounds)) = Cardinality(Workers) * Rounds
    BY <2>3, FS_Product
  <2> QED
    BY <2>2, <2>4, SameCardinality DEF CounterExact, Locking!CounterExact
<1>2. ASSUME ~Locking!Terminated,
             \A w \in Workers : pc[w] \notin Locking!Critical
      PROVE  ~locked /\ \E w \in Workers : pc[w] \in {"lock", "yield"}
  BY <1>2
  DEF MutualExclusion, Locking!MutualExclusion, Locking!Terminated, LockTyped,
      Locking!TypeOK
<1> QED
  BY <1>1, <1>2 DEF AllCounted

\* What mutex.c is for: while workers are left, one of them has the lock or
\* can take it, and the counter that main prints has lost no increment.
THEOREM CountsAll == Locking!Spec => []AllCounted
<1> QED
  BY LockTypedInit, LockTypedStep, ExclusionInit, ExclusionStep, FreshInit,
     FreshStep, ExactInit, ExactStep, RoundsMadeInit, RoundsMadeStep,
     AllIncrements, PTL DEF Locking!Spec

\* A worker that sleeps for the mutex does what one that spins on the lock
\* does, but for looking at it while it is taken.
LEMMA MutexIsLock == [Locking!MutexNext]_(Locking!vars)
                        => [Locking!Next]_(Locking!vars)
  BY DEF Locking!MutexNext, Locking!Next, Locking!MutexRuns, Locking!Runs,
         Locking!MutexLock

\* So with the pthread mutex, which the worker of mutex.c takes, one worker at
\* a time is between lock and unlock, no increment is lost, and nobody sleeps
\* for a mutex that nobody holds.
THEOREM MutexCounts ==
    Locking!MutexSpec => [](MutualExclusion /\ CounterExact /\ AllCounted)
<1>1. Locking!MutexSpec => Locking!Spec
  BY MutexIsLock, PTL DEF Locking!MutexSpec, Locking!Spec
<1> QED
  BY <1>1, Excludes, CountsExactly, CountsAll, PTL

-----------------------------------------------------------------------------
(* array_avg.c                                                             *)

\* Division of naturals.
LEMMA Quotient ==
    ASSUME NEW a \in Nat, NEW n \in Nat \ {0}
    PROVE  /\ a \div n \in Nat
           /\ n * (a \div n) <= a
           /\ a < n * (a \div n) + n
           /\ n * (a \div n) = a - (a % n)
  OBVIOUS

\* A quotient is the largest number whose multiple is no more.
LEMMA QuotientIs ==
    ASSUME NEW a \in Nat, NEW n \in Nat \ {0}, NEW d \in Nat, n * d <= a
    PROVE  d <= a \div n
<1>1. PICK e \in Nat : e = a \div n
  BY Quotient
<1>2. a < n * e + n
  BY <1>1, Quotient
<1>3. ~(d >= e + 1)
  <2> SUFFICES ASSUME d >= e + 1 PROVE FALSE
    OBVIOUS
  <2>1. PICK k \in Nat : d = e + 1 + k
    OBVIOUS
  <2>2. n * d = n * e + n + n * k
    BY <2>1
  <2>3. n * k \in Nat /\ n * e \in Nat
    OBVIOUS
  <2> QED
    BY <1>2, <2>2, <2>3
<1> QED
  BY <1>1, <1>3

\* The ranges do not overlap: size / thread_num places follow each start.
LEMMA StartsApart ==
    ASSUME NEW s \in Nat, NEW n \in Nat \ {0}, NEW j \in Nat
    PROVE  (j * s) \div n + s \div n <= ((j + 1) * s) \div n
<1>1. j * s \in Nat /\ (j + 1) * s \in Nat /\ (j + 1) * s = j * s + s
  OBVIOUS
<1>2. PICK a \in Nat, b \in Nat : a = (j * s) \div n /\ b = s \div n
  BY <1>1, Quotient
<1>3. n * a <= j * s /\ n * b <= s
  BY <1>1, <1>2, Quotient
<1>4. n * (a + b) = n * a + n * b /\ n * a \in Nat /\ n * b \in Nat
  OBVIOUS
<1>5. n * (a + b) <= (j + 1) * s
  BY <1>1, <1>3, <1>4
<1> QED
  BY <1>1, <1>2, <1>5, QuotientIs

\* The last range ends with the array.
LEMMA LastStart ==
    ASSUME NEW s \in Nat, NEW n \in Nat \ {0}
    PROVE  (n * s) \div n = s
<1>1. n * s \in Nat
  OBVIOUS
<1>2. PICK d \in Nat : d = (n * s) \div n
  BY <1>1, Quotient
<1>3. s <= d
  BY <1>1, <1>2, QuotientIs
<1>4. n * d <= n * s
  BY <1>1, <1>2, Quotient
<1>5. ~(d >= s + 1)
  <2> SUFFICES ASSUME d >= s + 1 PROVE FALSE
    OBVIOUS
  <2>1. PICK k \in Nat : d = s + 1 + k
    OBVIOUS
  <2>2. n * d = n * s + n + n * k
    BY <2>1
  <2>3. n * k \in Nat
    OBVIOUS
  <2> QED
    BY <1>4, <2>2, <2>3
<1> QED
  BY <1>2, <1>3, <1>5

\* Where the range of the thread after the j-th begins, and how long it is.
Start(j) == (j * size) \div threadNum
Part == size \div threadNum

AvgTypes ==
    /\ size \in Nat /\ threadNum \in Nat \ {0} /\ threadNum <= MaxThreads
    /\ created \in Nat /\ created <= threadNum
    /\ joined \in Nat /\ joined <= threadNum
    /\ ranges \in [1 .. MaxThreads -> [data : Nat, size : Nat]]
    /\ summed \in [1 .. MaxThreads -> Nat]
    /\ sum \in [0 .. MaxThreads -> Seq(Nat)]

\* A thread created has its range, and has summed the first places of it.
Ranged ==
    \A t \in 1 .. MaxThreads :
        /\ t <= created => ranges[t] = [data |-> Start(t - 1), size |-> Part]
        /\ Len(sum[t]) = summed[t]
        /\ \A k \in 1 .. Len(sum[t]) :
              t <= created /\ sum[t][k] = Start(t - 1) + k

\* The sum of main so far has the places before the range to join next, in
\* increasing order.
Increasing ==
    /\ Len(sum[0]) = joined * Part
    /\ \A k \in 1 .. Len(sum[0]) : sum[0][k] \in 1 .. Start(joined)
    /\ \A k, l \in 1 .. Len(sum[0]) : k < l => sum[0][k] < sum[0][l]

AvgInv == AvgTypes /\ Ranged /\ Increasing

\* No thread and no range at the beginning.
LEMMA AvgInit == Summing!Init => AvgInv
<1> SUFFICES ASSUME Summing!Init PROVE AvgInv
  OBVIOUS
<1>1. AvgTypes
  BY ThreadsAssumption, EmptySeq DEF Summing!Init, AvgTypes
<1>2. \A t \in 0 .. MaxThreads : Len(sum[t]) = 0
  BY EmptySeq DEF Summing!Init
<1>3. Ranged
  BY <1>1, <1>2, ThreadsAssumption DEF Ranged, Summing!Init, AvgTypes
<1>4. Increasing
  <2>1. Len(sum[0]) = 0
    BY <1>2, ThreadsAssumption
  <2>2. Part \in Nat
    BY <1>1, Quotient DEF AvgTypes, Part
  <2>3. joined * Part = 0
    BY <2>2 DEF Summing!Init
  <2> QED
    BY <2>1, <2>3 DEF Increasing
<1> QED
  BY <1>1, <1>3, <1>4 DEF AvgInv

\* One range begins after the one before it ends.
LEMMA PlacesType ==
    ASSUME AvgTypes, NEW j \in Nat
    PROVE  Start(j) \in Nat /\ Part \in Nat /\ Start(j) + Part <= Start(j + 1)
<1>1. j * size \in Nat /\ size \in Nat /\ threadNum \in Nat \ {0}
  BY DEF AvgTypes
<1>2. (j + 1) * size \in Nat
  BY <1>1
<1> QED
  BY <1>1, <1>2, Quotient, StartsApart DEF Start, Part

\* A new thread gets the range after those given out.
LEMMA AvgCreate == AvgInv /\ Summing!Create => AvgInv'
<1> SUFFICES ASSUME AvgInv, Summing!Create PROVE AvgInv'
  OBVIOUS
<1> USE DEF AvgInv
<1>1. /\ created < threadNum /\ created' = created + 1
      /\ ranges' = [ranges EXCEPT ![created + 1] =
                      [data |-> Start(created), size |-> Part]]
      /\ UNCHANGED <<size, threadNum, summed, sum, joined>>
      /\ \A j \in Nat : Start(j)' = Start(j)
      /\ Part' = Part
  BY DEF Summing!Create, Start, Part
<1>2. /\ created \in Nat /\ created + 1 \in 1 .. MaxThreads
      /\ Start(created) \in Nat /\ Part \in Nat
  <2>1. created \in Nat /\ threadNum \in Nat /\ threadNum <= MaxThreads
    BY DEF AvgTypes
  <2>2. Start(created) \in Nat /\ Part \in Nat
    BY <2>1, PlacesType
  <2>3. created + 1 \in 1 .. MaxThreads
    BY <1>1, <2>1, ThreadsAssumption
  <2> QED
    BY <2>1, <2>2, <2>3
<1>3. AvgTypes'
  BY <1>1, <1>2 DEF AvgTypes
<1>4. Ranged'
  <2> SUFFICES ASSUME NEW t \in 1 .. MaxThreads
               PROVE  /\ t <= created' => ranges'[t] =
                            [data |-> Start(t - 1)', size |-> Part']
                      /\ Len(sum'[t]) = summed'[t]
                      /\ \A k \in 1 .. Len(sum'[t]) :
                            t <= created' /\ sum'[t][k] = Start(t - 1)' + k
    BY DEF Ranged
  <2>1. /\ t \in Nat /\ t - 1 \in Nat
        /\ ranges \in [1 .. MaxThreads -> [data : Nat, size : Nat]]
    BY ThreadsAssumption DEF AvgTypes
  <2>2. t = created + 1 \/ (t # created + 1 /\ ranges'[t] = ranges[t])
    BY <1>1, <2>1
  <2>3. t = created + 1 =>
          /\ t - 1 = created
          /\ ranges'[t] = [data |-> Start(created), size |-> Part]
    BY <1>1, <1>2, <2>1
  <2>4. t # created + 1 /\ t <= created' => t <= created
    BY <1>1, <1>2, <2>1
  <2>5. t <= created => t <= created'
    BY <1>1, <1>2, <2>1
  <2>6. Start(t - 1)' = Start(t - 1)
    BY <1>1, <2>1
  <2> QED
    BY <1>1, <2>2, <2>3, <2>4, <2>5, <2>6 DEF Ranged
<1>5. Increasing'
  <2>1. Start(joined)' = Start(joined)
    BY <1>1 DEF AvgTypes
  <2> QED
    BY <1>1, <2>1 DEF Increasing
<1> QED
  BY <1>3, <1>4, <1>5

\* A thread sums the range that it was given, and once.
LEMMA AvgSummer ==
    ASSUME AvgInv, NEW t \in 1 .. MaxThreads, Summing!Summer(t)
    PROVE  AvgInv'
<1> USE DEF AvgInv
<1> DEFINE x == ranges[t].data + summed[t] + 1
<1>1. /\ t <= created
      /\ sum' = [sum EXCEPT ![t] = Append(sum[t], x)]
      /\ summed' = [summed EXCEPT ![t] = summed[t] + 1]
      /\ UNCHANGED <<size, threadNum, created, ranges, joined>>
      /\ \A j : Start(j)' = Start(j)
      /\ Part' = Part
  BY DEF Summing!Summer, Start, Part
<1>2. /\ t \in Nat /\ t # 0 /\ t - 1 \in Nat /\ t \in 0 .. MaxThreads
      /\ sum[t] \in Seq(Nat) /\ summed[t] \in Nat /\ 0 \in 0 .. MaxThreads
      /\ Len(sum[t]) = summed[t]
  BY ThreadsAssumption DEF AvgTypes, Ranged
<1>3. /\ Start(t - 1) \in Nat
      /\ x = Start(t - 1) + summed[t] + 1 /\ x \in Nat
  <2>1. Start(t - 1) \in Nat
    BY <1>2, PlacesType
  <2>2. ranges[t] = [data |-> Start(t - 1), size |-> Part]
    BY <1>1 DEF Ranged
  <2>3. ranges[t].data = Start(t - 1)
    BY <2>2
  <2> QED
    BY <1>2, <2>1, <2>3
<1> HIDE DEF x
<1>4. /\ Append(sum[t], x) \in Seq(Nat)
      /\ Len(Append(sum[t], x)) = summed[t] + 1
      /\ \A k \in 1 .. summed[t] : Append(sum[t], x)[k] = sum[t][k]
      /\ Append(sum[t], x)[summed[t] + 1] = x
  <2>1. PICK y \in Seq(Nat) : y = sum[t]
    BY <1>2
  <2>2. PICK n \in Nat : n = summed[t] /\ n = Len(y)
    BY <1>2, <2>1
  <2>3. /\ Append(y, x) \in Seq(Nat) /\ Len(Append(y, x)) = n + 1
        /\ \A k \in 1 .. n : Append(y, x)[k] = y[k]
        /\ Append(y, x)[n + 1] = x
    BY <1>3, <2>2
  <2> QED
    BY <2>1, <2>2, <2>3, Zenon
<1>5. AvgTypes'
  BY <1>1, <1>2, <1>4 DEF AvgTypes
<1>6. sum'[t] = Append(sum[t], x) /\ summed'[t] = summed[t] + 1
  BY <1>1, <1>2 DEF AvgTypes
<1>7. \A u \in 0 .. MaxThreads : u # t => sum'[u] = sum[u]
  BY <1>1 DEF AvgTypes
<1>8. \A u \in 1 .. MaxThreads : u # t => summed'[u] = summed[u]
  BY <1>1 DEF AvgTypes
<1>9. \A k \in 1 .. summed[t] + 1 : sum'[t][k] = Start(t - 1) + k
  <2> SUFFICES ASSUME NEW k \in 1 .. summed[t] + 1
               PROVE  sum'[t][k] = Start(t - 1) + k
    OBVIOUS
  <2>1. k \in 1 .. summed[t] \/ k = summed[t] + 1
    BY <1>2
  <2>2. CASE k \in 1 .. summed[t]
    BY <1>2, <1>4, <1>6, <2>2 DEF Ranged
  <2>3. CASE k = summed[t] + 1
    <3>1. Start(t - 1) + summed[t] + 1 = Start(t - 1) + (summed[t] + 1)
      BY <1>2, <1>3
    <3> QED
      BY <1>3, <1>4, <1>6, <2>3, <3>1
  <2> QED
    BY <2>1, <2>2, <2>3
<1>10. Ranged'
  <2> SUFFICES ASSUME NEW u \in 1 .. MaxThreads
               PROVE  /\ u <= created' => ranges'[u] =
                            [data |-> Start(u - 1)', size |-> Part']
                      /\ Len(sum'[u]) = summed'[u]
                      /\ \A k \in 1 .. Len(sum'[u]) :
                            u <= created' /\ sum'[u][k] = Start(u - 1)' + k
    BY DEF Ranged
  <2>1. CASE u = t
    BY <1>1, <1>4, <1>6, <1>9, <2>1 DEF Ranged
  <2>2. CASE u # t
    <3>1. u \in 0 .. MaxThreads
      BY ThreadsAssumption
    <3> QED
      BY <1>1, <1>7, <1>8, <2>2, <3>1 DEF Ranged
  <2> QED
    BY <2>1, <2>2
<1>11. Increasing'
  <2>1. sum'[0] = sum[0]
    BY <1>2, <1>7
  <2> QED
    BY <1>1, <2>1 DEF Increasing
<1> QED
  BY <1>5, <1>10, <1>11

\* What joining two sequences of known lengths gives: avg.c's sum of the
\* first threads, followed by that of the thread joined next.
LEMMA JoinedPlaces ==
  ASSUME NEW y \in Seq(Nat), NEW z \in Seq(Nat),
         NEW a, NEW q, Len(y) = a, Len(z) = q
  PROVE  /\ y \o z \in Seq(Nat)
         /\ Len(y \o z) = a + q
         /\ \A k \in 1 .. a + q :
               (y \o z)[k] = IF k <= a THEN y[k] ELSE z[k - a]
<1>1. y \o z \in Seq(Nat)
  OBVIOUS
<1>2. Len(y \o z) = Len(y) + Len(z)
  BY SMTT(40)
<1>3. \A k \in 1 .. Len(y) + Len(z) :
        (y \o z)[k] = IF k <= Len(y) THEN y[k] ELSE z[k - Len(y)]
  BY SMTT(40)
<1> QED
  BY <1>1, <1>2, <1>3

\* main adds the partial sum of each thread once, in the order it joins them.
LEMMA AvgJoin == AvgInv /\ Summing!Join => AvgInv'
<1> SUFFICES ASSUME AvgInv, Summing!Join PROVE AvgInv'
  OBVIOUS
<1> USE DEF AvgInv
<1> DEFINE u == joined + 1
<1>1. /\ created = threadNum /\ joined < threadNum
      /\ summed[u] = ranges[u].size
      /\ sum' = [sum EXCEPT ![0] = sum[0] \o sum[u]]
      /\ joined' = u
      /\ UNCHANGED <<size, threadNum, created, ranges, summed>>
      /\ \A j : Start(j)' = Start(j)
      /\ Part' = Part
  BY DEF Summing!Join, Start, Part
<1>2. /\ u \in 1 .. MaxThreads /\ u \in 0 .. MaxThreads /\ u - 1 = joined
      /\ 0 \in 0 .. MaxThreads /\ u <= created /\ u \in Nat
      /\ joined \in Nat /\ u <= threadNum
  BY <1>1, ThreadsAssumption DEF AvgTypes
<1>3. /\ sum[0] \in Seq(Nat) /\ sum[u] \in Seq(Nat)
      /\ Len(sum[0]) = joined * Part /\ Len(sum[u]) = Part
      /\ \A k \in 1 .. Part : sum[u][k] = Start(joined) + k
  <2> HIDE DEF u
  <2>1. sum[0] \in Seq(Nat) /\ sum[u] \in Seq(Nat)
    BY <1>2 DEF AvgTypes
  <2>2. ranges[u] = [data |-> Start(u - 1), size |-> Part]
    BY <1>2 DEF Ranged
  <2>3. Len(sum[u]) = Part
    BY <1>1, <1>2, <2>2 DEF Ranged
  <2>4. \A k \in 1 .. Len(sum[u]) : sum[u][k] = Start(u - 1) + k
    BY <1>2 DEF Ranged
  <2> QED
    BY <1>2, <2>1, <2>3, <2>4 DEF Increasing
<1>4. PICK a \in Nat, q \in Nat, d \in Nat, e \in Nat :
        /\ a = joined * Part /\ q = Part
        /\ d = Start(joined) /\ e = Start(u) /\ d + q <= e
  <2>1. joined * Part \in Nat
    BY <1>2, PlacesType
  <2> QED
    BY <1>2, <2>1, PlacesType
<1> DEFINE s == sum[0] \o sum[u]
<1>5. /\ s \in Seq(Nat) /\ Len(s) = a + q
      /\ \A k \in 1 .. a + q :
            s[k] = IF k <= a THEN sum[0][k] ELSE sum[u][k - a]
  <2> HIDE DEF u
  <2>1. PICK y \in Seq(Nat), z \in Seq(Nat) : y = sum[0] /\ z = sum[u]
    BY <1>3
  <2>2. Len(y) = a /\ Len(z) = q
    BY <1>3, <1>4, <2>1
  <2>3. /\ y \o z \in Seq(Nat) /\ Len(y \o z) = a + q
        /\ \A k \in 1 .. a + q :
              (y \o z)[k] = IF k <= a THEN y[k] ELSE z[k - a]
    BY <2>2, JoinedPlaces
  <2> QED
    BY <2>1, <2>3, Zenon
<1>6. sum'[0] = s /\ \A t \in 1 .. MaxThreads : sum'[t] = sum[t]
  <2>1. sum' = [sum EXCEPT ![0] = s]
    BY <1>1
  <2>2. DOMAIN sum = 0 .. MaxThreads
    BY DEF AvgTypes
  <2>3. \A t \in 1 .. MaxThreads : t \in 0 .. MaxThreads /\ t # 0
    BY ThreadsAssumption
  <2> HIDE DEF s, u
  <2> QED
    BY <1>2, <2>1, <2>2, <2>3
<1>7. AvgTypes'
  BY <1>1, <1>2, <1>5 DEF AvgTypes
<1>8. Ranged'
  <2>1. /\ UNCHANGED <<created, ranges, summed>>
        /\ Part' = Part /\ \A j : Start(j)' = Start(j)
    BY <1>1
  <2> HIDE DEF s, u
  <2> QED
    BY <1>6, <2>1 DEF Ranged
<1>9. Len(s) = u * Part
  <2>1. u * q = joined * q + q
    BY <1>2
  <2> QED
    BY <1>4, <1>5, <2>1
<1>10. \A k \in 1 .. a : s[k] = sum[0][k] /\ s[k] \in 1 .. d
  <2>1. \A k \in 1 .. a : k \in 1 .. a + q /\ k <= a
    BY <1>4
  <2>2. \A k \in 1 .. a : sum[0][k] \in 1 .. d
    BY <1>3, <1>4 DEF Increasing
  <2> QED
    BY <1>5, <2>1, <2>2
<1>11. \A k \in a + 1 .. a + q : s[k] = d + (k - a)
  <2>1. \A k \in a + 1 .. a + q :
          k \in 1 .. a + q /\ ~(k <= a) /\ k - a \in 1 .. q
    BY <1>4
  <2> QED
    BY <1>3, <1>4, <1>5, <2>1
<1>12. \A k \in 1 .. a + q : k \in 1 .. a \/ k \in a + 1 .. a + q
  BY <1>4
<1>13. \A k \in 1 .. a + q : s[k] \in 1 .. e
  <2> HIDE DEF s, u
  <2>1. \A k \in 1 .. a : s[k] \in 1 .. e
    <3>1. \A x \in 1 .. d : x \in 1 .. e
      BY <1>4
    <3> QED
      BY <1>10, <3>1
  <2>2. \A k \in a + 1 .. a + q : s[k] \in 1 .. e
    <3>1. \A k \in a + 1 .. a + q : d + (k - a) \in 1 .. e
      BY <1>4
    <3> QED
      BY <1>11, <3>1
  <2> QED
    BY <1>12, <2>1, <2>2
<1>14. \A k, l \in 1 .. a + q : k < l => s[k] < s[l]
  <2> SUFFICES ASSUME NEW k \in 1 .. a + q, NEW l \in 1 .. a + q, k < l
               PROVE  s[k] < s[l]
    OBVIOUS
  <2> HIDE DEF s
  <2>1. CASE k \in 1 .. a /\ l \in 1 .. a
    BY <1>3, <1>4, <1>10, <2>1 DEF Increasing
  <2>2. CASE k \in 1 .. a /\ l \in a + 1 .. a + q
    BY <1>4, <1>10, <1>11, <2>2
  <2>3. CASE k \in a + 1 .. a + q /\ l \in a + 1 .. a + q
    BY <1>4, <1>11, <2>3
  <2>4. ~(k \in a + 1 .. a + q /\ l \in 1 .. a)
    BY <1>4
  <2> QED
    BY <1>12, <2>1, <2>2, <2>3, <2>4
<1>15. Increasing'
  <2> HIDE DEF s, u
  <2> QED
    BY <1>1, <1>4, <1>5, <1>6, <1>9, <1>13, <1>14 DEF Increasing
<1> QED
  BY <1>7, <1>8, <1>15

\* array_avg_parallel adds no element twice, and misses only the size %
\* thread_num that its division leaves over: none where that is 0.
THEOREM AddsOnce == Summing!Spec => []EachOnce
<1>1. AvgInv /\ [Summing!Next]_(Summing!vars) => AvgInv'
  <2>1. AvgInv /\ UNCHANGED Summing!vars => AvgInv'
    BY DEF AvgInv, AvgTypes, Ranged, Increasing, Start, Part, Summing!vars
  <2> QED
    BY <2>1, AvgCreate, AvgSummer, AvgJoin DEF Summing!Next
<1>2. AvgInv => EachOnce
  <2> SUFFICES ASSUME AvgInv, joined = threadNum
               PROVE  /\ Summing!ToSet(sum[0]) \subseteq 1 .. size
                      /\ Summing!IsInjective(sum[0])
                      /\ Len(sum[0]) = size - (size % threadNum)
    BY DEF EachOnce, Summing!EachOnce, Summing!Averaged
  <2>1. /\ size \in Nat /\ threadNum \in Nat \ {0} /\ sum[0] \in Seq(Nat)
        /\ DOMAIN sum[0] = 1 .. Len(sum[0])
    BY ThreadsAssumption, LenProperties DEF AvgInv, AvgTypes
  <2>2. Start(threadNum) = size
    BY <2>1, LastStart DEF Start
  <2>3. Summing!ToSet(sum[0]) \subseteq 1 .. size
    BY <2>1, <2>2 DEF Summing!ToSet, AvgInv, Increasing
  <2>4. Summing!IsInjective(sum[0])
    <3> SUFFICES ASSUME NEW k \in 1 .. Len(sum[0]), NEW l \in 1 .. Len(sum[0]),
                        sum[0][k] = sum[0][l]
                 PROVE  k = l
      BY <2>1 DEF Summing!IsInjective
    <3>1. sum[0][k] \in Nat /\ k \in Nat /\ l \in Nat
      BY <2>1, LenProperties, ElementOfSeq
    <3>2. ~(k < l) /\ ~(l < k)
      BY <3>1 DEF AvgInv, Increasing
    <3> QED
      BY <3>1, <3>2
  <2>5. Len(sum[0]) = threadNum * Part
    BY DEF AvgInv, Increasing
  <2>6. threadNum * Part = size - (size % threadNum)
    BY <2>1, Quotient DEF Part
  <2> QED
    BY <2>3, <2>4, <2>5, <2>6
<1> QED
  BY <1>1, <1>2, AvgInit, PTL DEF Summing!Spec

-----------------------------------------------------------------------------
(* condvar.c                                                               *)

\* TypeOK is not inductive: a thread that is not done has rounds left.
PlayTyped ==
    /\ Playing!TypeOK
    /\ \A t \in Playing!Thread : at[t] # "done" => turn[t] < Turns

\* What the mutex protects: its owner is the thread between lock and unlock
\* that does not sleep, and what that thread knows of str is so.
Locked ==
    \A t \in Playing!Thread :
        /\ owner = t <=>
              at[t] \in {"check", "wait", "print", "signal", "unlock"}
        /\ at[t] = "print" => str = Playing!Other(t)
        /\ at[t] \in {"signal", "unlock"} => str = t

\* The last word printed is in str, and the first one is "ping".
LastWord == str = IF Len(printed) % 2 = 1 THEN "ping" ELSE "pong"

\* Players begin well typed.
LEMMA PlayTypedInit == Playing!Init => PlayTyped
  BY ThreadsAssumption
     DEF Playing!Init, PlayTyped, Playing!TypeOK, Playing!Begin,
         Playing!Thread, Playing!Nobody

\* Every step of a player keeps the types.
LEMMA PlayTypedStep == PlayTyped /\ [Playing!Next]_(Playing!vars) => PlayTyped'
<1> SUFFICES ASSUME PlayTyped, [Playing!Next]_(Playing!vars) PROVE PlayTyped'
  OBVIOUS
<1> USE ThreadsAssumption
        DEF Playing!Thread, Playing!Nobody, PlayTyped, Playing!TypeOK,
            Playing!Step
<1>1. ASSUME NEW t \in Playing!Thread, Playing!Lock(t) PROVE PlayTyped'
  BY <1>1 DEF Playing!Lock
<1>2. ASSUME NEW t \in Playing!Thread, Playing!Check(t) PROVE PlayTyped'
  BY <1>2 DEF Playing!Check
<1>3. ASSUME NEW t \in Playing!Thread, Playing!Wait(t) PROVE PlayTyped'
  BY <1>3 DEF Playing!Wait
<1>4. ASSUME NEW t \in Playing!Thread, Playing!Relock(t) PROVE PlayTyped'
  BY <1>4 DEF Playing!Relock
<1>5. ASSUME NEW t \in Playing!Thread, Playing!PrintWord(t) PROVE PlayTyped'
  BY <1>5 DEF Playing!PrintWord
<1>6. ASSUME NEW t \in Playing!Thread, Playing!Signal(t) PROVE PlayTyped'
  BY <1>6 DEF Playing!Signal
<1>7. ASSUME NEW t \in Playing!Thread, Playing!Unlock(t) PROVE PlayTyped'
  BY <1>7 DEF Playing!Unlock, Playing!Begin
<1>8. ASSUME NEW t \in Playing!Thread, Playing!SpuriousWakeup(t)
      PROVE  PlayTyped'
  BY <1>8 DEF Playing!SpuriousWakeup
<1>9. CASE UNCHANGED Playing!vars
  BY <1>9 DEF Playing!vars
<1> QED
  BY <1>1, <1>2, <1>3, <1>4, <1>5, <1>6, <1>7, <1>8, <1>9
     DEF Playing!Next, Playing!Runs, Playing!Joined

\* Whatever the schedule, the variables keep their types: in particular a
\* thread never goes through more rounds than its loop has.
THEOREM PlayTypeCorrect == Playing!Spec => []Playing!TypeOK
<1>1. PlayTyped => Playing!TypeOK
  BY DEF PlayTyped
<1> QED
  BY <1>1, PlayTypedInit, PlayTypedStep, PTL DEF Playing!Spec

-----------------------------------------------------------------------------
\* The mutex and what was found under it, together with who sleeps.
LEMMA LockedStep ==
    PlayTyped /\ Locked /\ NoLostWakeup /\ [Playing!Next]_(Playing!vars)
        => Locked' /\ NoLostWakeup'
<1> SUFFICES ASSUME PlayTyped, Locked, NoLostWakeup,
                    [Playing!Next]_(Playing!vars)
             PROVE  Locked' /\ NoLostWakeup'
  OBVIOUS
<1> USE DEF Playing!Thread, Playing!Other, Playing!Nobody, PlayTyped,
            Playing!TypeOK, Locked, NoLostWakeup, Playing!NoLostWakeup,
            Playing!Step
<1>1. ASSUME NEW t \in Playing!Thread, Playing!Lock(t)
      PROVE  Locked' /\ NoLostWakeup'
  BY <1>1 DEF Playing!Lock
<1>2. ASSUME NEW t \in Playing!Thread, Playing!Check(t)
      PROVE  Locked' /\ NoLostWakeup'
  BY <1>2 DEF Playing!Check
<1>3. ASSUME NEW t \in Playing!Thread, Playing!Wait(t)
      PROVE  Locked' /\ NoLostWakeup'
  BY <1>3 DEF Playing!Wait
<1>4. ASSUME NEW t \in Playing!Thread, Playing!Relock(t)
      PROVE  Locked' /\ NoLostWakeup'
  BY <1>4 DEF Playing!Relock
<1>5. ASSUME NEW t \in Playing!Thread, Playing!PrintWord(t)
      PROVE  Locked' /\ NoLostWakeup'
  BY <1>5 DEF Playing!PrintWord
<1>6. ASSUME NEW t \in Playing!Thread, Playing!Signal(t)
      PROVE  Locked' /\ NoLostWakeup'
  BY <1>6 DEF Playing!Signal
<1>7. ASSUME NEW t \in Playing!Thread, Playing!Unlock(t)
      PROVE  Locked' /\ NoLostWakeup'
  BY <1>7 DEF Playing!Unlock, Playing!Begin
<1>8. ASSUME NEW t \in Playing!Thread, Playing!SpuriousWakeup(t)
      PROVE  Locked' /\ NoLostWakeup'
  BY <1>8 DEF Playing!SpuriousWakeup
<1>9. CASE UNCHANGED Playing!vars
  BY <1>9 DEF Playing!vars
<1> QED
  BY <1>1, <1>2, <1>3, <1>4, <1>5, <1>6, <1>7, <1>8, <1>9
     DEF Playing!Next, Playing!Runs, Playing!Joined

\* At the beginning the mutex is free and nobody sleeps.
LEMMA LockedInit == Playing!Init => Locked /\ NoLostWakeup
  BY DEF Playing!Init, Playing!Begin, Locked, NoLostWakeup,
         Playing!NoLostWakeup, Playing!Thread, Playing!Other, Playing!Nobody

\* No schedule and no spurious wakeup loses a wakeup: a thread that sleeps
\* has nothing to do, or the signal for it is about to be given.
THEOREM WakeupsKept == Playing!Spec => []NoLostWakeup
<1> QED
  BY PlayTypedInit, PlayTypedStep, LockedInit, LockedStep, PTL DEF Playing!Spec

-----------------------------------------------------------------------------
\* Who prints found the other's word in str, which is the last one printed.
LEMMA AlternatingStep ==
    PlayTyped /\ Locked /\ LastWord /\ Alternating
            /\ [Playing!Next]_(Playing!vars)
        => LastWord' /\ Alternating'
<1> SUFFICES ASSUME PlayTyped, Locked, LastWord, Alternating,
                    [Playing!Next]_(Playing!vars)
             PROVE  LastWord' /\ Alternating'
  OBVIOUS
<1>1. ASSUME NEW t \in Playing!Thread, Playing!PrintWord(t)
      PROVE  LastWord' /\ Alternating'
  <2> DEFINE n == Len(printed)
  <2>1. printed \in Seq(Playing!Thread) /\ n \in Nat
    BY DEF PlayTyped, Playing!TypeOK
  <2>2. /\ Len(printed') = n + 1
        /\ printed'[n + 1] = t
        /\ \A k \in 1 .. n : printed'[k] = printed[k]
    BY <1>1, <2>1 DEF Playing!PrintWord
  <2>3. t = IF (n + 1) % 2 = 1 THEN "ping" ELSE "pong"
    <3>1. str = Playing!Other(t)
      BY <1>1 DEF Locked, Playing!PrintWord, Playing!Step
    <3>2. (n + 1) % 2 = 1 <=> n % 2 # 1
      BY <2>1
    <3> QED
      BY <3>1, <3>2 DEF LastWord, Playing!Thread, Playing!Other
  <2>4. LastWord'
    BY <1>1, <2>2, <2>3 DEF Playing!PrintWord, LastWord
  <2>5. ASSUME NEW k \in 1 .. n + 1
        PROVE  printed'[k] = IF k % 2 = 1 THEN "ping" ELSE "pong"
    <3>1. CASE k = n + 1
      BY <3>1, <2>2, <2>3
    <3>2. CASE k # n + 1
      <4>1. k \in 1 .. n
        BY <3>2, <2>1
      <4> QED
        BY <4>1, <2>2 DEF Alternating, Playing!Alternating
    <3> QED
      BY <3>1, <3>2
  <2> QED
    BY <2>2, <2>4, <2>5 DEF Alternating, Playing!Alternating
<1>2. ASSUME NEW t \in Playing!Thread,
             Playing!Runs(t) \/ Playing!SpuriousWakeup(t),
             ~Playing!PrintWord(t)
      PROVE  LastWord' /\ Alternating'
  BY <1>2
     DEF LastWord, Alternating, Playing!Alternating, Playing!Runs,
         Playing!SpuriousWakeup, Playing!Lock, Playing!Check, Playing!Wait,
              Playing!Relock, Playing!Signal, Playing!Unlock
<1>3. CASE UNCHANGED Playing!vars
  BY <1>3 DEF Playing!vars, LastWord, Alternating, Playing!Alternating
<1> QED
  BY <1>1, <1>2, <1>3 DEF Playing!Next, Playing!Joined

\* Nothing is printed at the beginning.
LEMMA AlternatingInit == Playing!Init => LastWord /\ Alternating
  BY DEF Playing!Init, LastWord, Alternating, Playing!Alternating

\* ping and pong are printed in turn, ping first.
THEOREM Alternates == Playing!Spec => []Alternating
<1> QED
  BY PlayTypedInit, PlayTypedStep, LockedInit, LockedStep, AlternatingInit,
     AlternatingStep, PTL DEF Playing!Spec
-----------------------------------------------------------------------------
(* No deadlock of the two threads, whose loops end together.               *)

\* The words a thread has printed, of the round it is in as well.
Words(t) == turn[t] + (IF at[t] \in {"signal", "unlock"} THEN 1 ELSE 0)

\* The threads keep pace: ping is a word ahead while its word is in str.
InPace ==
    /\ Words("ping") = Words("pong") + (IF str = "ping" THEN 1 ELSE 0)
    /\ Len(printed) = Words("ping") + Words("pong")

\* A thread that is done has been through all its rounds.
DoneIsAll == \A t \in Playing!Thread : at[t] = "done" => turn[t] = Turns

\* What a thread can do something in: it has or can get the mutex.
CanRun(t) ==
    \/ at[t] \in {"check", "wait", "print", "signal", "unlock"}
    \/ at[t] \in {"lock", "relock"} /\ owner = Playing!Nobody

\* Until both threads are done one of them can run, and when they are each
\* has printed all its words.
NeverStuck ==
    /\ Playing!Terminated \/ \E t \in Playing!Thread : CanRun(t)
    /\ Playing!Terminated => Len(printed) = 2 * Turns

\* Printing a word makes the output one longer.
LEMMA PrintAdds ==
    ASSUME PlayTyped, NEW t \in Playing!Thread, Playing!PrintWord(t)
    PROVE  Len(printed') = Len(printed) + 1 /\ Len(printed) \in Nat
<1>1. printed \in Seq(Playing!Thread) /\ printed' = Append(printed, t)
  BY DEF PlayTyped, Playing!TypeOK, Playing!PrintWord
<1> QED
  BY <1>1

\* No word is printed and no round begun but in the other's turn.
LEMMA InPaceStep ==
    PlayTyped /\ Locked /\ InPace /\ DoneIsAll
            /\ [Playing!Next]_(Playing!vars)
        => InPace' /\ DoneIsAll'
<1> SUFFICES ASSUME PlayTyped, Locked, InPace, DoneIsAll,
                    [Playing!Next]_(Playing!vars)
             PROVE  InPace' /\ DoneIsAll'
  OBVIOUS
<1> USE ThreadsAssumption
        DEF Playing!Thread, Playing!Other, Playing!Nobody, PlayTyped,
            Playing!TypeOK, Playing!Step, InPace, DoneIsAll, Words
<1>1. ASSUME NEW t \in Playing!Thread, Playing!Lock(t)
      PROVE  InPace' /\ DoneIsAll'
  BY <1>1 DEF Playing!Lock
<1>2. ASSUME NEW t \in Playing!Thread, Playing!Check(t)
      PROVE  InPace' /\ DoneIsAll'
  BY <1>2 DEF Playing!Check
<1>3. ASSUME NEW t \in Playing!Thread, Playing!Wait(t)
      PROVE  InPace' /\ DoneIsAll'
  BY <1>3 DEF Playing!Wait
<1>4. ASSUME NEW t \in Playing!Thread, Playing!Relock(t)
      PROVE  InPace' /\ DoneIsAll'
  BY <1>4 DEF Playing!Relock
<1>5. ASSUME NEW t \in Playing!Thread, Playing!PrintWord(t)
      PROVE  InPace' /\ DoneIsAll'
  <2>1. str = Playing!Other(t) /\ str' = t
    BY <1>5 DEF Playing!PrintWord, Locked
  <2>2. Len(printed') = Len(printed) + 1 /\ Len(printed) \in Nat
    BY <1>5, PrintAdds
  <2>3. /\ at[t] = "print" /\ at' = [at EXCEPT ![t] = "signal"]
        /\ turn' = turn
    BY <1>5 DEF Playing!PrintWord
  <2>4. DoneIsAll'
    BY <2>3
  <2>5. CASE t = "ping"
    <3>1. Words("ping")' = Words("ping") + 1 /\ Words("pong")' = Words("pong")
      BY <2>3, <2>5
    <3>2. Words("ping") \in Nat /\ Words("pong") \in Nat
      OBVIOUS
    <3> HIDE DEF Words
    <3> QED
      BY <2>1, <2>2, <2>4, <2>5, <3>1, <3>2
  <2>6. CASE t = "pong"
    <3>1. Words("pong")' = Words("pong") + 1 /\ Words("ping")' = Words("ping")
      BY <2>3, <2>6
    <3>2. Words("ping") \in Nat /\ Words("pong") \in Nat
      OBVIOUS
    <3> HIDE DEF Words
    <3> QED
      BY <2>1, <2>2, <2>4, <2>6, <3>1, <3>2
  <2> QED
    BY <2>5, <2>6
<1>6. ASSUME NEW t \in Playing!Thread, Playing!Signal(t)
      PROVE  InPace' /\ DoneIsAll'
  BY <1>6 DEF Playing!Signal
<1>7. ASSUME NEW t \in Playing!Thread, Playing!Unlock(t)
      PROVE  InPace' /\ DoneIsAll'
  BY <1>7 DEF Playing!Unlock, Playing!Begin
<1>8. ASSUME NEW t \in Playing!Thread, Playing!SpuriousWakeup(t)
      PROVE  InPace' /\ DoneIsAll'
  BY <1>8 DEF Playing!SpuriousWakeup
<1>9. CASE UNCHANGED Playing!vars
  BY <1>9 DEF Playing!vars
<1> QED
  BY <1>1, <1>2, <1>3, <1>4, <1>5, <1>6, <1>7, <1>8, <1>9
     DEF Playing!Next, Playing!Runs, Playing!Joined

\* Before the first word nobody is ahead.
LEMMA InPaceInit == Playing!Init => InPace /\ DoneIsAll
  BY ThreadsAssumption
     DEF Playing!Init, Playing!Begin, Playing!Thread, InPace, DoneIsAll, Words

\* The two threads never wait for each other: who sleeps has printed the last
\* word, so that the other is not asleep, and not done either, for it is
\* not ahead.
LEMMA InPaceRuns ==
    PlayTyped /\ Locked /\ NoLostWakeup /\ InPace /\ DoneIsAll => NeverStuck
<1> SUFFICES ASSUME PlayTyped, Locked, NoLostWakeup, InPace, DoneIsAll
             PROVE  NeverStuck
  OBVIOUS
<1> USE ThreadsAssumption
        DEF Playing!Thread, Playing!Other, Playing!Nobody, PlayTyped,
            Playing!TypeOK
<1>1. ASSUME \A t \in Playing!Thread : ~CanRun(t)
      PROVE  Playing!Terminated
  <2>1. owner = Playing!Nobody
    BY <1>1 DEF CanRun, Locked
  <2>2. \A t \in Playing!Thread : at[t] \in {"asleep", "done"}
    BY <1>1, <2>1 DEF CanRun
  <2>3. \A t \in Playing!Thread : at[t] = "asleep" => str = t
    BY <2>2 DEF NoLostWakeup, Playing!NoLostWakeup
  <2>4. \A t \in Playing!Thread : Words(t) = turn[t]
    BY <2>2 DEF Words
  <2>5. ASSUME NEW t \in Playing!Thread, at[t] = "asleep" PROVE FALSE
    <3>1. turn[t] < Turns /\ str = t
      BY <2>3, <2>5
    <3>2. at[Playing!Other(t)] = "done"
      BY <2>2, <2>3, <3>1
    <3>3. turn[Playing!Other(t)] = Turns
      BY <3>2 DEF DoneIsAll
    <3> QED
      BY <2>4, <3>1, <3>3 DEF InPace
  <2> QED
    BY <2>2, <2>5 DEF Playing!Terminated
<1>2. Playing!Terminated => Len(printed) = 2 * Turns
  BY DEF Playing!Terminated, InPace, DoneIsAll, Words
<1> QED
  BY <1>1, <1>2 DEF NeverStuck

\* condvar.c never deadlocks, in spite of a signal that nobody waits for and
\* of wakeups for no reason, and main joins two threads that printed it all.
THEOREM PlaysOn == Playing!Spec => []NeverStuck
<1> QED
  BY PlayTypedInit, PlayTypedStep, LockedInit, LockedStep, InPaceInit,
     InPaceStep, InPaceRuns, PTL DEF Playing!Spec
=============================================================================
