------------------------------- MODULE Fibers -------------------------------
(***************************************************************************)
(* sem-03-asm-x86/context-switch-1 and -2: main and a function on a stack  *)
(* of its own take turns by switch_to_and_save_current.  In the second     *)
(* program the function is a fiber's, which run_fiber marks as finished.   *)
(*                                                                         *)
(* Memory is its words of eight bytes; word w is at address 8 * w.  A word *)
(* is a kind and a value; where the program goes on after a call is one    *)
(* too, and so is pc.  The registers are the six that a function must give *)
(* back as they were: 1 to 6 are rbp, rbx, r12, r13, r14 and r15.          *)
(***************************************************************************)
EXTENDS Integers, Sequences

CONSTANTS FiberWords,  \* words of the fiber's stack, 128 * 1024
          Contents     \* what the registers may hold

Regs == 1 .. 6
Held == {"reg"} \X Nat

ASSUME FibersAssumption ==
    /\ FiberWords \in Nat
    /\ FiberWords % 2 = 0
    /\ FiberWords >= 16
    /\ Contents \subseteq [Regs -> Held]

VARIABLES program,   \* 1 or 2
          mem, regs, rsp, pc,
          context,   \* the saved rsp of each party
          finished,  \* fiber.finished
          left       \* what each party had on its last switch away

vars == <<program, mem, regs, rsp, pc, context, finished, left>>

Parties == {"main", "fiber"}
Zero == <<"reg", 0>>
Garbage == <<"garbage", 0>>
Argument == <<"fiber", 0>>  \* &fiber
Entry == <<"entry", 0>>     \* start_helper, or func in the first program

\* The fiber's stack is below the part of main's that matters here.
MainRsp == FiberWords + 8
Stack(p) == IF p = "fiber" THEN 0 .. FiberWords - 1 ELSE FiberWords .. MainRsp
Words == 0 .. MainRsp

Running == IF pc[1] \in {"main", "exit"} THEN "main" ELSE "fiber"

-----------------------------------------------------------------------------
(* prepare_rsp_asm, on stack_end + ST_SZ - 1                               *)

AlignedTop ==
    LET stack == 8 * FiberWords - 1 IN (stack - (stack % 16)) \div 8

\* Faulty variant: without sub rsp, 8.
PreparedNoGap ==
    [rsp |-> AlignedTop - 7,
     mem |-> [w \in Words |->
                CASE w = AlignedTop -> Argument
                  [] w = AlignedTop - 1 -> Entry
                  [] w \in AlignedTop - 7 .. AlignedTop - 2 -> Zero
                  [] OTHER -> Garbage]]

\* The helper's place in the stack, under a word for its return address, which
\* is never set, and its seventh argument.
Prepared ==
    [rsp |-> AlignedTop - 8,
     mem |-> [w \in Words |->
                CASE w = AlignedTop /\ program = 2 -> Argument
                  [] w = AlignedTop - 2 -> Entry
                  [] w \in AlignedTop - 8 .. AlignedTop - 3 -> Zero
                  [] OTHER -> Garbage]]

Init ==
    /\ program \in {1, 2}
    /\ mem = Prepared.mem
    /\ regs \in Contents
    /\ rsp = MainRsp
    /\ pc = <<"main", 0>>
    /\ context = [main |-> 0, fiber |-> Prepared.rsp]
    /\ finished = FALSE
    /\ left = [p \in Parties |-> <<>>]

-----------------------------------------------------------------------------
(* switch_to_and_save_current                                              *)

\* The call pushes where the caller goes on, the function its registers.
Pushed(ret) ==
    [w \in Words |-> CASE w = rsp - 1 -> ret
                       [] w \in rsp - 7 .. rsp - 2 -> regs[rsp - 1 - w]
                       [] OTHER -> mem[w]]

\* Faulty variant: the registers are popped in the order of the pushes.
SwitchSameOrder(from, to, ret) ==
    /\ mem' = Pushed(ret)
    /\ context' = [context EXCEPT ![from] = rsp - 7]
    /\ regs' = [r \in Regs |-> mem'[context[to] + r - 1]]
    /\ pc' = mem'[context[to] + 6]
    /\ rsp' = context[to] + 7
    /\ left' = [left EXCEPT ![from] = <<regs, rsp, ret>>]
    /\ UNCHANGED <<program, finished>>

Switch(from, to, ret) ==
    /\ mem' = Pushed(ret)
    /\ context' = [context EXCEPT ![from] = rsp - 7]
    /\ regs' = [r \in Regs |-> mem'[context[to] + 6 - r]]
    /\ pc' = mem'[context[to] + 6]
    /\ rsp' = context[to] + 7
    /\ left' = [left EXCEPT ![from] = <<regs, rsp, ret>>]
    /\ UNCHANGED <<program, finished>>

-----------------------------------------------------------------------------
(* main                                                                    *)

\* main has come back from pc[2] switches.
Over == IF program = 2 THEN finished ELSE pc[2] = 3

Resume ==
    /\ pc[1] = "main"
    /\ ~Over
    /\ Switch("main", "fiber", <<"main", pc[2] + 1>>)

Exit ==
    /\ pc[1] = "main"
    /\ Over
    /\ pc' = <<"exit", 0>>
    /\ UNCHANGED <<program, mem, regs, rsp, context, finished, left>>

-----------------------------------------------------------------------------
(* The function                                                            *)

\* From the first instruction to func: each function on the way leaves rsp at
\* a multiple of 16, as before every call.  start_helper takes its argument.
Enter ==
    /\ pc = Entry
    /\ program = 2 => mem[rsp + 1] = Argument
    /\ rsp' = IF program = 2 THEN rsp - 5 ELSE rsp - 1
    /\ pc' = <<"func", 0>>
    /\ UNCHANGED <<program, mem, regs, context, finished, left>>

\* How often func switches to main, the last time for good in the first.
Yields == IF program = 2 THEN 2 ELSE 3

\* func has come back from pc[2] switches.
Yield ==
    /\ pc[1] = "func"
    /\ pc[2] < Yields
    /\ Switch("fiber", "main", <<"func", pc[2] + 1>>)

\* Faulty variant: func returns and the fiber is not marked.
FinishUnmarked ==
    /\ program = 2 /\ pc = <<"func", 2>>
    /\ rsp' = rsp + 2
    /\ pc' = <<"run_fiber", 0>>
    /\ UNCHANGED <<program, mem, regs, context, finished, left>>

\* func returns to run_fiber.
Finish ==
    /\ program = 2 /\ pc = <<"func", 2>>
    /\ rsp' = rsp + 2
    /\ pc' = <<"run_fiber", 0>>
    /\ finished' = TRUE
    /\ UNCHANGED <<program, mem, regs, context, left>>

LastSwitch ==
    /\ pc = <<"run_fiber", 0>>
    /\ Switch("fiber", "main", <<"run_fiber", 1>>)

\* The code between two switches uses the registers.
Work ==
    /\ pc[1] \in {"main", "func", "run_fiber"}
    /\ regs' \in Contents
    /\ UNCHANGED <<program, mem, rsp, pc, context, finished, left>>

-----------------------------------------------------------------------------
Step == Resume \/ Exit \/ Enter \/ Yield \/ Finish \/ LastSwitch

Next == Step \/ Work

Spec == Init /\ [][Next]_vars

\* A thread that can run goes on.
FairSpec == Spec /\ WF_vars(Step)

-----------------------------------------------------------------------------
(* Properties                                                              *)

\* Who is switched to finds its registers, its stack pointer and its place as
\* they were when it switched away, whatever the other has done since.
SwitchBack ==
    [][(Running' # Running /\ left[Running'] # <<>>)
            => <<regs', rsp', pc'>> = left[Running']]_vars

\* Both run, and are saved, within their own stacks; the function is entered
\* as the calling convention says: rsp + 8 is a multiple of 16, with the fiber
\* as the seventh argument.
EntryAsCalled ==
    /\ rsp \in Stack(Running)
    /\ \A p \in Parties : left[p] # <<>> => context[p] \in Stack(p)
    /\ pc = Entry =>
          /\ (8 * rsp + 8) % 16 = 0
          /\ rsp + 1 \in Stack("fiber")
          /\ program = 2 => mem[rsp + 1] = Argument

\* main ends, after three turns of the function, which is never run after its
\* last switch, where it would return to a word that no call has written.
Ends ==
    /\ <>(pc = <<"exit", 0>>)
    /\ [][pc'[1] = "exit" => pc = <<"main", 3>>]_vars

=============================================================================
