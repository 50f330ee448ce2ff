---------------------------- MODULE FibersProofs ----------------------------
(***************************************************************************)
(* A switch gives back what the last switch away had, for stacks of any    *)
(* size and any use of the registers in between.                           *)
(***************************************************************************)
EXTENDS Fibers, TLAPS

\* rsp in each part of the code: after the pops of the first switch, in func
\* and in run_fiber.
FiberRsp(part) ==
    CASE part = "entry" -> FiberWords - 3
      [] part = "func" -> IF program = 2 THEN FiberWords - 8
                          ELSE FiberWords - 4
      [] OTHER -> FiberWords - 6

\* p can be at a place of its code with rsp = s.
Placed(p, s, at) ==
    IF p = "main" THEN at[1] \in {"main", "exit"} /\ s = MainRsp
    ELSE at[1] \in {"entry", "func", "run_fiber"} /\ s = FiberRsp(at[1])

\* A switch to p will find registers r, rsp = s and go on at a place.
Suspended(p, r, s, at) ==
    /\ r \in [Regs -> Held]
    /\ Placed(p, s, at)
    /\ context[p] = s - 7
    /\ mem[s - 1] = at
    /\ \A i \in Regs : mem[s - 1 - i] = r[i]
    /\ left[p] # <<>> => left[p] = <<r, s, at>>

Other(p) == IF p = "main" THEN "fiber" ELSE "main"

SwitchInv ==
    /\ program \in {1, 2}
    /\ regs \in [Regs -> Held]
    /\ DOMAIN context = Parties /\ DOMAIN left = Parties
    /\ Placed(Running, rsp, pc)
    /\ \E r, s, at : Suspended(Other(Running), r, s, at)
    /\ \A p \in Parties : left[p] # <<>> => context[p] \in Stack(p)
    /\ program = 2 => mem[FiberWords - 2] = Argument

\* With an even number of words the aligned top is the last but one.
LEMMA Top == AlignedTop = FiberWords - 2
<1>1. PICK m \in Nat : FiberWords = 2 * m /\ m >= 8
  <2>1. \A f \in Nat : f % 2 = 0 => f = 2 * (f \div 2) /\ f \div 2 \in Nat
    OBVIOUS
  <2>2. FiberWords = 2 * (FiberWords \div 2) /\ FiberWords \div 2 \in Nat
    BY <2>1, FibersAssumption
  <2>3. \A m \in Nat : 2 * m >= 16 => m >= 8
    OBVIOUS
  <2> QED
    BY <2>2, <2>3, FibersAssumption
<1>2. (8 * FiberWords - 1) % 16 = 15
  BY <1>1
<1>3. (16 * m - 16) \div 8 = 2 * m - 2
  BY <1>1
<1> QED
  BY <1>1, <1>2, <1>3 DEF AlignedTop

\* What a switch pushes, and its caller, are within the stack of the caller.
LEMMA Within ==
    ASSUME NEW p \in Parties, NEW s, NEW at, Placed(p, s, at),
           program \in {1, 2}
    PROVE  /\ s \in Int /\ s \in Stack(p)
           /\ \A i \in 1 .. 7 : s - i \in Stack(p) /\ s - i \in Words
           /\ p = "fiber" => s < FiberWords - 2
           /\ p = "main" => s > FiberWords + 7
<1>1. FiberWords \in Nat /\ FiberWords >= 16
  BY FibersAssumption
<1>2. CASE p = "main"
  BY <1>1, <1>2 DEF Placed, Stack, Words, MainRsp
<1>3. CASE p = "fiber"
  <2>1. s \in {FiberWords - 3, FiberWords - 8, FiberWords - 4, FiberWords - 6}
    BY <1>3 DEF Placed, FiberRsp
  <2> QED
    BY <1>1, <1>3, <2>1 DEF Stack, Words, MainRsp
<1> QED
  BY <1>2, <1>3 DEF Parties

\* The two stacks have no word in common.
LEMMA Apart ==
    \A w \in Stack("main") : w \notin Stack("fiber") /\ w # FiberWords - 2
  BY FibersAssumption DEF Stack, MainRsp

\* main begins on its own stack.
LEMMA SwitchInit == Init => SwitchInv
<1> SUFFICES ASSUME Init PROVE SwitchInv
  OBVIOUS
<1>1. FiberWords \in Nat /\ FiberWords >= 16
  BY FibersAssumption
<1>2. mem = Prepared.mem /\ context["fiber"] = Prepared.rsp
  BY DEF Init
<1>3. /\ Prepared.rsp = FiberWords - 10
      /\ \A w \in Words :
            mem[w] = CASE w = FiberWords - 2 /\ program = 2 -> Argument
                       [] w = FiberWords - 4 -> Entry
                       [] w \in FiberWords - 10 .. FiberWords - 5 -> Zero
                       [] OTHER -> Garbage
  BY <1>1, <1>2, Top DEF Prepared
<1>4. /\ program = 2 => mem[FiberWords - 2] = Argument
      /\ mem[FiberWords - 4] = Entry
      /\ \A i \in Regs : mem[FiberWords - 4 - i] = Zero
  <2>1. /\ FiberWords - 2 \in Words /\ FiberWords - 4 \in Words
        /\ \A i \in Regs : /\ FiberWords - 4 - i \in Words
                           /\ FiberWords - 4 - i \in
                                FiberWords - 10 .. FiberWords - 5
                           /\ FiberWords - 4 - i # FiberWords - 2
                           /\ FiberWords - 4 - i # FiberWords - 4
    BY <1>1 DEF Words, MainRsp, Regs
  <2> QED
    BY <1>1, <1>3, <2>1
<1>5. Running = "main" /\ Placed(Running, rsp, pc)
  BY DEF Init, Running, Placed
<1>6. Suspended("fiber", [i \in Regs |-> Zero], FiberWords - 3, Entry)
  <2>1. [i \in Regs |-> Zero] \in [Regs -> Held]
    BY DEF Held, Zero
  <2>2. Placed("fiber", FiberWords - 3, Entry)
    BY DEF Placed, FiberRsp, Entry
  <2>3. left["fiber"] = <<>>
    BY DEF Init, Parties
  <2>4. /\ FiberWords - 3 - 7 = FiberWords - 10
        /\ FiberWords - 3 - 1 = FiberWords - 4
    BY <1>1
  <2> QED
    BY <1>2, <1>3, <1>4, <2>1, <2>2, <2>3, <2>4 DEF Suspended
<1>7. \A p \in Parties : left[p] = <<>>
  BY DEF Init
<1>8. regs \in [Regs -> Held] /\ program \in {1, 2}
  BY FibersAssumption DEF Init
<1>9. DOMAIN context = Parties /\ DOMAIN left = Parties
  BY DEF Init, Parties
<1> QED
  BY <1>4, <1>5, <1>6, <1>7, <1>8, <1>9 DEF SwitchInv, Other

-----------------------------------------------------------------------------
\* What every switch does, by whoever runs.
LEMMA SwitchStep ==
    ASSUME SwitchInv, NEW p \in Parties, p = Running, NEW ret,
           Placed(p, rsp, ret), ret[1] # "exit",
           Switch(p, Other(p), ret)
    PROVE  /\ SwitchInv'
           /\ Running' = Other(p)
           /\ left[Other(p)] # <<>> => <<regs', rsp', pc'>> = left[Other(p)]
<1> DEFINE q == Other(p)
<1>1. q \in Parties /\ q # p /\ Other(q) = p
  BY DEF Other, Parties
<1>2. PICK r, s, at : Suspended(q, r, s, at)
  BY DEF SwitchInv
<1>3. /\ s \in Int /\ rsp \in Int
      /\ \A i \in 1 .. 7 : /\ rsp - i \in Stack(p) /\ rsp - i \in Words
                           /\ s - i \in Stack(q) /\ s - i \in Words
  BY <1>1, <1>2, Within DEF Suspended, SwitchInv
<1>4. \A w \in Words : w \notin Stack(p) => mem'[w] = mem[w]
  <2>1. ASSUME NEW w \in Words, w \notin Stack(p)
        PROVE  w # rsp - 1 /\ w \notin rsp - 7 .. rsp - 2
    <3>1. w \in Int
      BY FibersAssumption DEF Words, MainRsp
    <3>2. ASSUME w \in rsp - 7 .. rsp - 1 PROVE FALSE
      <4>1. rsp - w \in 1 .. 7 /\ rsp - (rsp - w) = w
        BY <1>3, <3>1, <3>2
      <4> QED
        BY <1>3, <2>1, <4>1
    <3>3. /\ rsp - 1 \in rsp - 7 .. rsp - 1
          /\ \A v \in rsp - 7 .. rsp - 2 : v \in rsp - 7 .. rsp - 1
      BY <1>3
    <3> QED
      BY <3>2, <3>3
  <2> QED
    BY <2>1 DEF Switch, Pushed
<1>5. mem'[rsp - 1] = ret /\ \A i \in Regs : mem'[rsp - 1 - i] = regs[i]
  BY <1>3 DEF Switch, Pushed, Regs
<1>6. \A w \in Stack(q) : w \notin Stack(p)
  BY <1>1, Apart DEF Parties
<1>7. mem'[s - 1] = at /\ \A i \in Regs : mem'[s - 1 - i] = r[i]
  <2>1. \A i \in 1 .. 7 : mem'[s - i] = mem[s - i]
    BY <1>3, <1>4, <1>6
  <2>2. \A i \in Regs : i + 1 \in 1 .. 7 /\ s - 1 - i = s - (i + 1)
    BY <1>3 DEF Regs
  <2> QED
    BY <1>2, <2>1, <2>2 DEF Suspended
<1>8. pc' = at /\ rsp' = s /\ regs' = r
  <2>1. /\ context[q] = s - 7 /\ context[q] + 7 = s /\ context[q] + 6 = s - 1
        /\ \A i \in Regs : context[q] + 6 - i = s - 1 - i
    <3>1. context[q] = s - 7
      BY <1>2 DEF Suspended
    <3>2. ASSUME NEW c, c = s - 7
          PROVE  /\ c + 7 = s /\ c + 6 = s - 1
                 /\ \A i \in Regs : c + 6 - i = s - 1 - i
      BY <1>3, <3>2 DEF Regs
    <3> QED
      BY <3>1, <3>2
  <2>2. regs' = [i \in Regs |-> mem'[s - 1 - i]]
    BY <2>1 DEF Switch
  <2>3. r \in [Regs -> Held]
    BY <1>2 DEF Suspended
  <2>4. regs' = r
    BY <1>7, <2>2, <2>3
  <2> QED
    BY <1>7, <2>1, <2>4 DEF Switch
<1>9. left[q] # <<>> => <<regs', rsp', pc'>> = left[q]
  BY <1>2, <1>8 DEF Suspended
<1>10. program' = program
  BY DEF Switch
<1>11. \A u, v, w : Placed(u, v, w)' <=> Placed(u, v, w)
  BY <1>10 DEF Placed, FiberRsp
<1>12. Running' = q /\ Placed(q, s, at)
  BY <1>1, <1>2, <1>8 DEF Suspended, Placed, Running, Parties, Other
<1>13. PICK r0, s0, at0 : r0 = regs /\ s0 = rsp /\ at0 = ret
  OBVIOUS
<1>14. /\ context' = [context EXCEPT ![p] = s0 - 7]
       /\ left' = [left EXCEPT ![p] = <<r0, s0, at0>>]
  BY <1>13 DEF Switch
<1>15. context'[p] = s0 - 7 /\ left'[p] = <<r0, s0, at0>>
  BY <1>14 DEF SwitchInv
<1>16. Suspended(p, r0, s0, at0)'
  <2>1. Placed(p, s0, at0)'
    BY <1>11, <1>13
  <2>2. r0 \in [Regs -> Held]
    BY <1>13 DEF SwitchInv
  <2>3. mem'[s0 - 1] = at0 /\ \A i \in Regs : mem'[s0 - 1 - i] = r0[i]
    BY <1>5, <1>13
  <2> QED
    BY <1>15, <2>1, <2>2, <2>3 DEF Suspended
<1>17. \E u, v, w : Suspended(Other(Running), u, v, w)'
  <2>1. Other(Running') = p
    BY <1>1, <1>12
  <2> QED
    BY <1>16, <2>1
<1>18. Placed(Running, rsp, pc)'
  BY <1>8, <1>10, <1>12 DEF Placed, FiberRsp
<1>19. \A u \in Parties : left'[u] # <<>> => context'[u] \in Stack(u)
  <2>1. context'[p] \in Stack(p)
    BY <1>3, <1>13, <1>15
  <2> QED
    BY <1>14, <2>1 DEF SwitchInv
<1>20. program' = 2 => mem'[FiberWords - 2] = Argument
  <2>1. FiberWords - 2 \in Words
    BY FibersAssumption DEF Words, MainRsp
  <2>2. FiberWords - 2 # rsp - 1 /\ FiberWords - 2 \notin rsp - 7 .. rsp - 2
    <3>1. p = "fiber" => rsp < FiberWords - 2
      BY Within DEF SwitchInv
    <3>2. p = "main" => rsp > FiberWords + 7
      BY Within DEF SwitchInv
    <3> QED
      BY <1>3, <3>1, <3>2, FibersAssumption DEF Parties
  <2>3. mem'[FiberWords - 2] = mem[FiberWords - 2]
    BY <2>1, <2>2 DEF Switch, Pushed
  <2> QED
    BY <1>10, <2>3 DEF SwitchInv
<1>21. regs' \in [Regs -> Held] /\ program' \in {1, 2}
  BY <1>2, <1>8, <1>10 DEF Suspended, SwitchInv
<1>22. DOMAIN context' = Parties /\ DOMAIN left' = Parties
  BY <1>14 DEF SwitchInv
<1>23. SwitchInv'
  BY <1>17, <1>18, <1>19, <1>20, <1>21, <1>22 DEF SwitchInv
<1> QED
  BY <1>9, <1>12, <1>23

-----------------------------------------------------------------------------
\* The steps between two switches stay on their stack and in their part.
LEMMA OwnStep ==
    ASSUME SwitchInv,
           /\ regs' \in [Regs -> Held] /\ Running' = Running
           /\ Placed(Running, rsp, pc)'
           /\ UNCHANGED <<program, mem, context, left>>
    PROVE  SwitchInv'
<1>1. PICK r, s, at : Suspended(Other(Running), r, s, at)
  BY DEF SwitchInv
<1>2. Suspended(Other(Running), r, s, at)'
  BY <1>1 DEF Suspended, Placed, FiberRsp, Other
<1> QED
  BY <1>2 DEF SwitchInv

\* Each step keeps the invariant, and a switch back finds what was left.
LEMMA Stepped ==
    ASSUME SwitchInv, [Next]_vars
    PROVE  /\ SwitchInv'
           /\ Running' # Running /\ left[Running'] # <<>>
                => <<regs', rsp', pc'>> = left[Running']
<1>1. Running \in Parties /\ program \in {1, 2} /\ regs \in [Regs -> Held]
      /\ Placed(Running, rsp, pc)
  BY DEF Running, Parties, SwitchInv
<1> DEFINE Goal == /\ SwitchInv'
                   /\ Running' # Running /\ left[Running'] # <<>>
                        => <<regs', rsp', pc'>> = left[Running']
<1>2. ASSUME NEW p \in Parties, p = Running, NEW ret, Placed(p, rsp, ret),
             ret[1] # "exit", Switch(p, Other(p), ret)
      PROVE  Goal
  BY <1>2, SwitchStep, Zenon
<1>3. CASE Resume
  <2>1. /\ Running = "main" /\ Other("main") = "fiber"
        /\ Placed("main", rsp, <<"main", pc[2] + 1>>)
        /\ <<"main", pc[2] + 1>>[1] # "exit"
    BY <1>1, <1>3 DEF Resume, Running, Other, Placed
  <2>2. Switch("main", Other("main"), <<"main", pc[2] + 1>>)
    BY <1>3, <2>1 DEF Resume
  <2> QED
    BY <1>1, <1>2, <2>1, <2>2
<1>4. CASE Yield
  <2>1. /\ Running = "fiber" /\ Other("fiber") = "main"
        /\ Placed("fiber", rsp, <<"func", pc[2] + 1>>)
        /\ <<"func", pc[2] + 1>>[1] # "exit"
    BY <1>1, <1>4 DEF Yield, Running, Other, Placed
  <2>2. Switch("fiber", Other("fiber"), <<"func", pc[2] + 1>>)
    BY <1>4, <2>1 DEF Yield
  <2> QED
    BY <1>1, <1>2, <2>1, <2>2
<1>5. CASE LastSwitch
  <2>1. /\ Running = "fiber" /\ Other("fiber") = "main"
        /\ Placed("fiber", rsp, <<"run_fiber", 1>>)
        /\ <<"run_fiber", 1>>[1] # "exit"
    BY <1>1, <1>5 DEF LastSwitch, Running, Other, Placed
  <2>2. Switch("fiber", Other("fiber"), <<"run_fiber", 1>>)
    BY <1>5, <2>1 DEF LastSwitch
  <2> QED
    BY <1>1, <1>2, <2>1, <2>2
<1>6. FiberWords \in Nat
  BY FibersAssumption
<1>7. CASE Exit
  <2>1. Running' = Running /\ Placed(Running, rsp, pc)'
    BY <1>1, <1>7 DEF Exit, Running, Placed
  <2> QED
    BY <1>1, <1>7, <2>1, OwnStep DEF Exit
<1>8. CASE Enter
  <2>1. rsp = FiberWords - 3
    BY <1>1, <1>8 DEF Enter, Running, Placed, FiberRsp, Entry
  <2>2. /\ pc'[1] = "func" /\ program' = program
        /\ rsp' = IF program = 2 THEN FiberWords - 8 ELSE FiberWords - 4
    BY <1>6, <1>8, <2>1 DEF Enter
  <2>3. Running' = "fiber" /\ Running = "fiber"
    BY <1>8, <2>2 DEF Enter, Running, Entry
  <2>4. Placed(Running, rsp, pc)'
    BY <2>2, <2>3 DEF Placed, FiberRsp
  <2> QED
    BY <1>1, <1>8, <2>3, <2>4, OwnStep DEF Enter
<1>9. CASE Finish
  <2>1. rsp = FiberWords - 8
    BY <1>1, <1>9 DEF Finish, Running, Placed, FiberRsp
  <2>2. pc'[1] = "run_fiber" /\ program' = program /\ rsp' = FiberWords - 6
    BY <1>6, <1>9, <2>1 DEF Finish
  <2>3. Running' = "fiber" /\ Running = "fiber"
    BY <1>9, <2>2 DEF Finish, Running
  <2>4. Placed(Running, rsp, pc)'
    BY <2>2, <2>3 DEF Placed, FiberRsp
  <2> QED
    BY <1>1, <1>9, <2>3, <2>4, OwnStep DEF Finish
<1>10. CASE Work \/ UNCHANGED vars
  <2>1. /\ UNCHANGED <<program, mem, rsp, pc, context, left>>
        /\ regs' \in [Regs -> Held]
    BY <1>1, <1>10, FibersAssumption DEF Work, vars
  <2>2. Running' = Running /\ Placed(Running, rsp, pc)'
    BY <1>1, <2>1 DEF Running, Placed, FiberRsp
  <2> QED
    BY <2>1, <2>2, OwnStep
<1> QED
  BY <1>3, <1>4, <1>5, <1>7, <1>8, <1>9, <1>10 DEF Next, Step

\* The convention of a first entry, and the bounds of both stacks.
THEOREM EntersAsCalled == Spec => []EntryAsCalled
<1>1. SwitchInv => EntryAsCalled
  <2> SUFFICES ASSUME SwitchInv PROVE EntryAsCalled
    OBVIOUS
  <2>1. Running \in Parties /\ program \in {1, 2} /\ Placed(Running, rsp, pc)
    BY DEF Running, Parties, SwitchInv
  <2>2. rsp \in Stack(Running)
    BY <2>1, Within
  <2>3. ASSUME pc = Entry
        PROVE  /\ (8 * rsp + 8) % 16 = 0 /\ rsp + 1 \in Stack("fiber")
               /\ program = 2 => mem[rsp + 1] = Argument
    <3>1. rsp = FiberWords - 3
      BY <2>1, <2>3 DEF Running, Placed, FiberRsp, Entry
    <3>2. FiberWords \in Nat /\ FiberWords >= 16 /\ FiberWords % 2 = 0
      BY FibersAssumption
    <3>3. rsp + 1 = FiberWords - 2 /\ 8 * rsp + 8 = 8 * FiberWords - 16
      BY <3>1, <3>2
    <3>4. \A f \in Nat : f % 2 = 0 => (8 * f - 16) % 16 = 0
      OBVIOUS
    <3> QED
      BY <3>2, <3>3, <3>4 DEF SwitchInv, Stack
  <2> QED
    BY <2>2, <2>3 DEF EntryAsCalled, SwitchInv
<1>2. SwitchInv /\ [Next]_vars => SwitchInv'
  BY Stepped
<1> QED
  BY <1>1, <1>2, SwitchInit, PTL DEF Spec

\* A switch gives the one it resumes the registers, the stack pointer and the
\* place of its own last switch away, whatever was run and stored since.
THEOREM SwitchesBack == Spec => SwitchBack
<1>1. SwitchInv /\ [Next]_vars =>
        [(Running' # Running /\ left[Running'] # <<>>)
             => <<regs', rsp', pc'>> = left[Running']]_vars
  BY Stepped
<1>2. SwitchInv /\ [Next]_vars => SwitchInv'
  BY Stepped
<1> QED
  BY <1>1, <1>2, SwitchInit, PTL DEF Spec, SwitchBack
=============================================================================
