------------------------------ MODULE ArrayAvg ------------------------------
(***************************************************************************)
(* sem-06-processes/array_avg.c: threads sum ranges of an array, and main  *)
(* adds up what they return.                                               *)
(*                                                                         *)
(* A sum is the sequence of the places in the array that went into it: a   *)
(* place left out or counted twice shows.  That a thread cannot be created *)
(* is left out, as the code does; the division is, too.                    *)
(***************************************************************************)
EXTENDS Naturals, Sequences, SequencesExt

CONSTANTS MaxSize,    \* bound: elements of the array
          MaxThreads  \* bound: threads

VARIABLES size, threadNum,  \* what main has read
          created,          \* how many threads array_avg_parallel created
          ranges,           \* of each thread: data (a place) and size
          summed,           \* of each thread: its i
          sum,              \* of each thread, and of main (0)
          joined            \* how many threads main has joined

vars == <<size, threadNum, created, ranges, summed, sum, joined>>

Init ==
    /\ size \in 1 .. MaxSize
    /\ threadNum \in 1 .. MaxThreads
    /\ created = 0
    /\ ranges = [t \in 1 .. MaxThreads |-> [data |-> 0, size |-> 0]]
    /\ summed = [t \in 1 .. MaxThreads |-> 0]
    /\ sum = [t \in 0 .. MaxThreads |-> <<>>]
    /\ joined = 0

\* Faulty variant: the sizes are rounded up and the places are not.
RoundUp ==
    /\ created < threadNum
    /\ created' = created + 1
    /\ ranges' = [ranges EXCEPT ![created + 1] =
                    [data |-> (created * size) \div threadNum,
                     size |-> (size + threadNum - 1) \div threadNum]]
    /\ UNCHANGED <<size, threadNum, summed, sum, joined>>

\* i * size / thread_num is evaluated from the left.
Create ==
    /\ created < threadNum
    /\ created' = created + 1
    /\ ranges' = [ranges EXCEPT ![created + 1] =
                    [data |-> (created * size) \div threadNum,
                     size |-> size \div threadNum]]
    /\ UNCHANGED <<size, threadNum, summed, sum, joined>>

\* The loop of summer.
Summer(t) ==
    /\ t <= created
    /\ summed[t] < ranges[t].size
    /\ sum' = [sum EXCEPT ![t] = Append(@, ranges[t].data + summed[t] + 1)]
    /\ summed' = [summed EXCEPT ![t] = @ + 1]
    /\ UNCHANGED <<size, threadNum, created, ranges, joined>>

Join ==
    /\ created = threadNum /\ joined < threadNum
    /\ summed[joined + 1] = ranges[joined + 1].size
    /\ sum' = [sum EXCEPT ![0] = @ \o sum[joined + 1]]
    /\ joined' = joined + 1
    /\ UNCHANGED <<size, threadNum, created, ranges, summed>>

Averaged == joined = threadNum

Next == Create \/ Join \/ \E t \in 1 .. MaxThreads : Summer(t)

Spec == Init /\ [][Next]_vars

-----------------------------------------------------------------------------
(* Properties                                                              *)

\* No element is added twice, and all are if size is a multiple of thread_num,
\* as array_avg.c:32 asks for.  Otherwise size % thread_num of them are missed
\* and the assertion of main may fail, which reads any size.
EachOnce ==
    Averaged =>
        /\ ToSet(sum[0]) \subseteq 1 .. size
        /\ IsInjective(sum[0])
        /\ Len(sum[0]) = size - (size % threadNum)

=============================================================================
