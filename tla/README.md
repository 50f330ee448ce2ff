# Verification of mipt-os-basic-seminars

TLA+ models, TLC runs and TLAPS proofs for the programs of the seminars
"Computer architecture and operating systems".  The repository is a collection
of small programs; the ones with behaviour over time are the echo servers
(`sem-09-network`, `sem-10-network-2`), the synchronisation examples
(`sem-07-synchronization`), the signal and pipe examples (`sem-08-ipc`), the
context switches (`sem-03-asm-x86`), the copying programs (`sem-02-files`) and
the parallel average (`sem-06-processes`).  Those are modelled.

Run a configuration with `tlc -config Fast.cfg MCEpollServerFast.tla`, check a
proof module with `tlapm EpollServerFastProofs.tla`.

## 1. Inventory

### Echo servers

Four servers with one service, and clients that may be slow, finish early or
go away.

| part | state it keeps | operations | hard behaviour |
|---|---|---|---|
| `epoll_server_fast.c` | `socket_state_t` of each client: socket, buf, buf_begin, buf_end; non-blocking sockets; an edge-triggered epoll | epoll_wait, accept until EAGAIN, serve a client until EAGAIN, close | an edge is told once; partial writes; state freed while events point to it; one failing call ends all |
| `epoll_server_stateful.c` | `client_state_t` of each client; blocking sockets; a level-triggered epoll | epoll_wait, accept, one read or one write for an event, close | a call that blocks stops everybody; reset between event and call |
| `epoll_server.c` | only descriptors | epoll_wait, accept, read and write back, close | the write blocks; assertions about what a client does |
| `threading_server.c` | a detached thread for each client, its malloc'ed argument | accept, launch, the thread's loop, close | lifetime of the argument; SIGPIPE; a thread that cannot be created |
| `tcp_server.c` | the one client at hand | accept, serve, close | the others wait |
| `udp_server.c` | none | receive and send back | lost datagrams |
| `tcp_client.c`, `bench.go`, netcat | a connection | send, read, finish, go away | the echo is left unread, which resets the connection |

Servers and clients share the kernel's queues only: a client's step makes a
socket readable or writable, or resets it; the epoll tells the server.  What is
right: every byte comes back once and in order; the server closes when the
client is done, and only then; a client does not keep others waiting; state is
not used after it is freed; descriptors are given back.

### Synchronisation

| part | state | operations | hard behaviour |
|---|---|---|---|
| `condvar.c` | `str`, mutex, condition variable | lock, test, wait, print, signal, unlock | lost and spurious wakeups |
| `mutex.c` | `locked` or `mutex`, `counter` | lock, increment, unlock | the lock taken twice, lost increments, no fairness |
| `race_condition.c`, `atomic.c` | `counter` | increment | an increment in two steps |
| `store_buffering.c`, `store_buffering_bye.c`, `data_race.c` | shared ints | store, load, main's loop over rounds | a store that waits in the processor's buffer while the next load is done |

### Processes, pipes and signals

| part | state | operations | hard behaviour |
|---|---|---|---|
| `pipe_close_handling.c` | a pipe, who holds which end | fork, close, read, write, exit | an end left open hides the end of file or EPIPE |
| `pipe_queue.c`, `pipe.c` | a pipe | threads or a command as readers | main does not wait |
| `sigint_cat.c` | `received_sigint`, a buffer | handler, check, read, write | a signal between check and read; a write cut short |
| `sigint_cat_select.c` | blocked SIGINT, a signalfd | select, read, write | signal against input |
| `sigaction.c`, `signalfd.c` | the last signal | handler, pause; read | a signal erased after the test, overwritten, or stored just before pause sleeps |
| `shell.c`, `redirecting_shell.c`, `fork.c`, `exec.c`, `map_shared.c`, `threads.c` | arguments, a child | parse, fork, exec, wait | argument limit, a failed redirection |

### Files, stacks and ranges

| part | state | operations | hard behaviour |
|---|---|---|---|
| `cp-1.c`, `cp-2.c`, `cp-3.c` | two descriptors with their offsets, a buffer, the path of the destination | stat, open, read, write until all is written | partial writes; O_TRUNC on the source itself; a name that changes between stat and open |
| `context-switch-1`, `-2` | two stacks, the saved rsp of each, `fiber.finished` | push and pop of the callee-saved registers, entry of a fiber, its end | word-exact layout of the stack; alignment; a switch to a function that is over |
| `array_avg.c` | ranges of an array, partial sums | create, sum, join | elements in two ranges or in none |

The other programs are listed under "What is left out" with the reasons.
`PROJECT.json` lists every part with its status, and under `hazards` the places
where each of them can go wrong.

## 2. Modules

```
EchoService            what an echo server promises (abstract)
TcpSockets             connections and clients; mapping to EchoService
  EpollServerFast        epoll_server_fast.c
  EpollServerStateful    epoll_server_stateful.c
  EpollServer            epoll_server.c
  ThreadingServer        threading_server.c
  TcpServer              tcp_server.c
CondvarPingPong        condvar.c
SpinLock               mutex.c
SharedMemory           race_condition.c, atomic.c, store_buffering.c,
                       store_buffering_bye.c, data_race.c
PipeCloseHandling      pipe_close_handling.c
PipeQueue              pipe_queue.c
SigintCat              sigint_cat.c
SigintCatSelect        sigint_cat_select.c
SignalPrinters         sigaction.c, signalfd.c
Fibers                 context-switch-1, context-switch-2
FileCopy               cp-1.c, cp-2.c, cp-3.c
ArrayAvg               array_avg.c
EchoLemmas, *Proofs    theorems (section 4)
MC*                    instances for TLC
```

Programs that answer one question in different ways are checked as a family: an
MC module declares the variables of all of them, starts one of them in each
initial state and runs that one only.

| MC module | family |
|---|---|
| `MCBlockingServers` | the servers whose reads and writes block: ThreadingServer, EpollServer, TcpServer |
| `MCThreads` | threads that share memory: SpinLock, SharedMemory, ArrayAvg, CondvarPingPong |
| `MCPipeCloseHandling` | painters as processes and as threads: PipeCloseHandling, PipeQueue |
| `MCCopying` | programs that copy through a buffer: the three of FileCopy, SigintCat, SigintCatSelect |
| `MCSignals` | the two of SignalPrinters |

A property of a family is stated once, and says where a member differs.  The
theorems about a family are of the specification that the run checks, without
its fairness.

Operators called faulty variants in the comments (`AcceptOne`,
`UnlockThenSleep`, ...) are not part of any specification.  Each is a plausible
bug of one operator; put in its place it makes TLC report the property it is
paired with in `PROJECT.json`, which shows that the property can fail.

### EchoService, TcpSockets

A stream is represented by the positions of its bytes: the i-th byte a client
sends is i.  `EchoService` has for each connection a phase, the number of bytes
sent, the bytes put out and the bytes delivered; the service closes only when
the client has finished and all was put out (`Close`), and either side may
break connections (`Break`), which loses at most what was under way.

`TcpSockets` is the kernel and the clients, and is external but for the
clients: receive and send queue of a connection on the server's side, end of
stream, reset, and what the client has.  It offers the system calls as
conjuncts (`SockRead`, `SockWrite`, `SockClose`, `SockExit`).  Two facts of TCP
matter and are in it: closing with unread bytes resets the connection, and
bytes received before a reset remain readable.  Bytes in flight are counted
with one of the two queues.  `Service!Spec` instantiates EchoService with `out`
as what the client has and what is under way.

`Promised` is what a service means to a client at any time: it has the
beginning of what was put out, that is the beginning of what it sent, and all
of it was put out when the service has closed.  `EchoPromised` says it of the
sockets.

### EpollServerFast

| TLA+ | `epoll_server_fast.c` |
|---|---|
| `pc`, `cur`, `caller` | where the thread is: `run`, `accept_connections_until_eagain`, the write or read loop of `handle_client_until_eagain`, for which client, called from where |
| `batch`, `hup` | the array `events` from the one at hand to the last, those with EPOLLHUP or EPOLLERR |
| `rdy`, `nospace` | the kernel: epoll's ready list, and SOCK_NOSPACE, which makes space in the send buffer an edge |
| `buf`, `bufBegin`, `bufEnd` | `socket_state_t`; it lives while `conn` is `open` |
| `EpollWait`, `HandleConnEvent`, `HandleHangup`, `HandleClientEvent` | `run`, `handle_conn_event`, `handle_client_event` |
| `Accept`, `AcceptAgain`, `AcceptError` | `accept_connections_until_eagain` |
| `ClientWrite`, `WriteAgain`, `ClientRead`, `ReadAgain`, `Disconnect` | `client_write`, `client_read` and the returns of `handle_client_until_eagain` |

A server step is one system call with the assignments after it, so that clients
act between any two calls.  A reset wakes an epoll entry like any edge.

### The other servers

`EpollServerStateful`: a handler makes one call and is one step; `events` holds
what epoll_wait said of each item, which may be stale when it is handled.
`WriteError` distinguishes EPIPE (handled) from ECONNRESET (`err` ends the
server).  `EpollServer`: the blocking write is a step for each portion the
kernel takes; `WriteError` is the failing assertion, and `ReadOverrun` the
undefined behaviour of `buffer[rbytes] = 0` after a full read.  `TcpServer` is
the same service with no epoll: one client is served to its end, in blocking
calls, and a reset gives ECONNRESET, SIGPIPE or a failed assertion by how far
its write has come.  `ThreadingServer`: main and a thread for each connection,
the pointer to the malloc'ed socket as `argument`; SIGPIPE, which this program
does not ignore, ends the process.

### CondvarPingPong, SpinLock

One action for a call of pthread or a statement that touches shared state.
`pthread_cond_wait` gives the mutex up and falls asleep in one step
(`Wait`), wakes by a signal or without (`SpuriousWakeup`), and takes the mutex
again (`Relock`).

`SpinLock` has the increment of `mutex.c` as a load and a store under a lock.
The worker in the file calls the pthread mutex (`MutexRuns`: a thread waits in
`MutexLock` until the mutex is free); the calls of `my_lock` and `my_unlock`,
which the file defines, stand next to them in comments, and are the worker
`Runs`, whose exchange is one step because it is `atomic_exchange`.  Both are
checked, and the theorems are about both.

### SharedMemory

The programs without a lock are short lists of instructions (`Code`) for the
two threads, over the memory of the x86 they are compiled for: `buffer[t]` has
the stores of thread t that memory has yet to get (`Drain`), a load sees its
own youngest store first (`Seen`), and a locked instruction (`Exchange`, `Add`)
waits for the empty buffer.  `Again` and `Exit` are main's loop after both
joins.

### PipeCloseHandling, PipeQueue

A process holds ends of the pipe in `readers` and `writers`; fork copies them,
and the end of a process gives them back.  A number is less than PIPE_BUF and
is read and written as one.  `Kill` is the termination from outside that a
comment in the source invites.  `ForkError` is a fork that fails, which main
does not look for.  `WriteDeserted` is the EPIPE; generate_numbers returns from
it as it does from its loop, and main goes on in the same way (`Produced`).

`PipeQueue` has the same numbers for detached threads: the read end is the
process's own all along, so EPIPE cannot happen, and what ends the process
(`Quit`, `Kill`, a failing detach in `CreateError`) ends all painters where
they are.

### SigintCat, SigintCatSelect, SignalPrinters

In `SigintCat` the handler runs between any two steps and a read waits through
it (SA_RESTART); a read or write that fails ends the program (`Fail`).  In
`SigintCatSelect` the signal is blocked, stays pending, and is one of the two
things `select` waits for.  The result of its read is not looked at:
`ReadError` is a read that fails, whose -1 makes the write fail too, and the
loop goes on.

`SignalPrinters` has both printers.  With the handler a signal is stored at
once, between any two steps (`StoreSignum`), and a later one overwrites it;
calling pause (`Pause`) is a step after the assignment (`ResetSignum`), and a
signal stored between the two does not keep pause from sleeping.  With the
signalfd it is pending until it is read (`Pend`, `ReadSignal`).

### Fibers, FileCopy, ArrayAvg

`Fibers` is memory word by word.  `Prepared` is what `prepare_rsp_asm` or the
code of main writes at the end of the new stack; `Switch` is the call, the
pushes, the exchange of rsp, the pops and the ret.  `Work` is the compiled code
between switches, which uses the registers as it likes.  `left` records what a
party had when it switched away, for the property that it finds it again.

`FileCopy` has names (what the path of the destination leads to), inodes and
their content.  `PrepareDest` is the stat of cp-3 and `Create`/`Truncate` the
open that follows it; `Meddle` is another process that changes the name at any
time.  `Write` takes any part of what is left, and any call may fail (`Fail`).

`ArrayAvg` records as a sum the places of the array that went into it, so that
an element left out or added twice shows.

## 3. Runs

| run | instance | shows |
|---|---|---|
| `fast` | 2 clients, 2 bytes each, a buffer of 2 over a send buffer of 1, one client responsive | StreamIntact, ReadIntoEmptyBuffer, NoUseAfterFree, NoLostEdge, CleanClose, ImplementsEchoService, Echoed, NoDescriptorLeak |
| `stateful` | 2 clients, 2 bytes each, a buffer smaller than the receive queue, one client responsive | EventsStillTrue (no call blocks), ImplementsEchoService, Echoed |
| `blocking` | `threading_server.c`, `epoll_server.c`, `tcp_server.c`, 2 clients, 2 bytes each, a read of 2 over a send buffer of 1 | OwnSocket, TypesOK, EchoPromised, ImplementsEchoService, ThreadServes, AllEchoed |
| `epoll_assertions` | `epoll_server.c` alone, the same | violation: a reset after epoll_wait, or while the write is blocked, fails the assertion on the write |
| `threads` | 3 workers under the mutex or the spin lock, 3 rounds; 2 threads of 3 rounds without one; arrays up to 6 for up to 3 threads; 10 turns of ping and pong, as in the code | MutualExclusion, CounterExact, WorkersEnd; NeverBothZero, CountsBounded; EachOnce; Alternating, NoLostWakeup, PlayersEnd |
| `pipe` | processes and threads, 2 painters, 4 numbers, a pipe of 2 | NumbersAccounted, PeersGone, GeneratorEnds, PaintersLeave, NumbersPainted |
| `pipe_produced` | the same, without fairness | violation: after EPIPE main says that all numbers were produced |
| `copying` | a file of 5 bytes, a buffer of 3, 2 interferences with the name; 4 bytes typed, reads of 3, an output of 2 | Copied, NewFileOnly; CopiedInOrder, SigintEnds, InputCopied |
| `sigint_cat` | the same family with little input: only `sigint_cat.c` can refute it | violation: a SIGINT is not looked at while no input comes |
| `signals` | 5 signals | QuitEnds |
| `sigaction_quit` | the same | violation: pause sleeps over a SIGQUIT that was stored before |
| `fibers` | a stack of 16 words, 4 sets of 6 different registers | EntryAsCalled, SwitchBack, Ends |

What the less obvious ones say: `EventsStillTrue`, that what epoll_wait
reported of a client still holds when the handler makes its blocking call.
`OwnSocket`, that a thread reads the argument that was meant for it.
`TypesOK`, that a server of one thread has bytes in hand only while it writes
them.  `EchoPromised`, the promise of EchoService above: what is under way when
a server or a connection ends may be lost, but never in the middle.
`CountsBounded`, that atomic increments add up and racing ones leave at least 2
of them, the known worst case.  `NumbersAccounted`, that a number is lost only
with a killed painter that had read it.  `PeersGone`, that what EPIPE and the
end of file make a process believe of the others is so: all painters that were
made are killed; nobody writes any more and the pipe is empty; and that main's
last line, "all numbers was produced", is untrue only when all painters are
dead (that it can be, `pipe_produced` shows).  `QuitEnds`, that a SIGQUIT ends
sigaction.c when it comes while the program sleeps in pause, prints or is about
to test, unless another signal overwrites it, and always ends signalfd.c.
`NewFileOnly`, that cp-3 does not empty a file that appeared after it looked
and found none.  `SwitchBack`, that who is switched to finds registers, stack
pointer and place as it left them.

The exact values are in the `.cfg` files. They are small, and chosen so that
the cases that matter happen: a receive queue longer than the program's buffer
or a buffer longer than the send queue (partial reads and writes, EAGAIN with
bytes held), a send queue that can fill and is writable again only below a
mark, a second client whose events share a batch with the first one's, a client
that never reads; more numbers than the pipe takes, and more painters than one,
so that one may die with a number in hand; more input than a read takes, and
more signals than a handler's variable can tell apart; rounds enough for the
first store of one thread to undo all but the last round of the other. Two
clients are enough because server code relates a client to at most one other
(the rest of a batch, the next thread); three workers are needed for a spin
lock where two wait for the third. 16 words are the smallest stack the calls
fit in; the layout does not depend on what is below. Bounds on what the code
does not bound: `MaxSent` bytes a client sends, `MaxInput` bytes typed,
`MaxSignals` signals, `Meddling` interferences, `MaxSize` and `MaxThreads` of
the average. `Rounds`, 100000 in the code, is 3. No symmetry is used, since the
liveness properties are checked in the same runs.

`CHECK_DEADLOCK FALSE` is in the runs where a system may come to rest: servers
when all clients have gone or the process has exited, programs that have ended
or wait for a user.  `threads` is checked for deadlock; its only resting states
(`Over`) are that main has joined its threads.

### Fairness

* The kernel schedules a thread that can run: weak fairness of each thread or
  process. For single-threaded servers that is one formula on all the steps of
  the server. Neither the mutex nor the spin lock is fair to a thread.
* The only strong fairness is that of the read of `sigint_cat_select.c`: the
  loop makes a read that failed again, and it does not fail every time
  (`InputCopied`).
* `Responsive` clients read the echo at hand (as `bench.go` does). The others
  need not, and never owe a send, a finish or a reset. For `epoll_server.c` all
  clients keep reading (`AllEchoed`): its write blocks, and a client that does
  not read stops it for everyone. For `tcp_server.c` they also finish in the
  end, as it serves one client until that one goes.
* An accept that fails is possible at any time and owed to nobody. So is
  `LaunchError`: the liveness properties of `ThreadingServer` are of clients
  that got a thread.
* `<>[][...]_mcVars` in `MCThreads`, of `CondvarPingPong`: a sleeper is not
  woken without a reason for ever. With endless spurious wakeups a thread could
  keep the mutex busy.
* Users owe nothing, and signals come at any time or never. The output of
  `sigint_cat_select.c` is read.
* `pipe_queue.c` waits for ever when no thread could be created, for it holds
  the read end of the full pipe itself: `GeneratorEnds` allows that.
* `SharedMemory`, `ArrayAvg` and `FileCopy` are checked for safety only.

## 4. Proofs

Every safety property of the passing runs is a theorem, for every value of the
constants their assumptions allow: any set of clients, any stream length, any
buffer and queue capacity, any number of rounds, threads, painters or words.
The runs came first: TLC checks each of them on a small instance.

Seven more theorems say, without fairness and for every value of the constants,
what the liveness properties of the runs rest on: that nothing is forgotten and
nobody waits for what cannot come.  ForgetsNothing, NeverBlocks, CountsAll,
PlaysOn, SomebodyGoesOn and NumbersGone are about properties stated where they
are proved, which no run checks; MutexCounts joins such a one with two that the
runs check.

`EchoLemmas` -- what the proofs about servers share. Streams: what
concatenation and subsequences do to `Intact(c, h)`, which says that what
client c sent is what it has, what is under way, what the server holds (h) and
what is unread, in order. Simulation: one lemma for each thing a client or a
server can do to sockets says which step of EchoService it is (`SendSends`,
`WriteEchoes`, `CloseCloses`, ...), or that it is none (`QuietStep`); the
proofs about the five servers then only have to find each of their steps among
them. ServiceKeeps: what implements EchoService keeps `Promised`. This one is
about EchoService alone and holds of any program whose refinement is proved.

`EpollServerFastProofs` -- TypeCorrect, BufferDiscipline, MemorySafe,
EveryEdgeKept, StreamsIntact, ClosesCleanly, Implements, PromiseKept,
ForgetsNothing.  The inductive invariant has four parts, each proved from the
ones before:

* `Typed`: TypeOK and ReadIntoEmptyBuffer.  TypeOK alone is not inductive: a
  read adds to bufEnd, and only that the buffer is empty then keeps it in
  range.
* `Live`: NoUseAfterFree and `Pointers`.  The server never holds two pointers
  to one client (an event of the batch is not of the client it is serving), so
  the client that a handler frees is not needed again; and epoll lists no
  client whose connection is closed.
* `Noticed`: NoLostEdge and `Stalled`.  A handler that left bytes behind did so
  on a full send buffer, which is remembered (`nospace`) until there is space.
* `Streams`: StreamIntact, CleanClose and `Emptied`.  A connection that was
  closed has nothing in a buffer of the server.

Implements (ImplementsEchoService) uses all of it: a write is an echo because
the bytes that leave `buf` are the next of the stream, and a close is a close
of the service because by CleanClose everything was written back.  PromiseKept
(EchoPromised) follows by ServiceKeeps, as it does for the other servers.
ForgetsNothing (NothingForgotten) is the safety behind Echoed and
NoDescriptorLeak: whenever epoll_wait would block, no connection waits to be
accepted, and a client that is still open, and has taken what was put out for
it, has sent no more than that, has not finished and has not reset.  It follows
from Noticed, which has an event on the way for everything unread.

`EpollServerStatefulProofs` -- ReportsKept (EventsStillTrue), Implements,
PromiseKept (EchoPromised) and NeverBlocks (CallsReturn).  The first three have
one invariant (`Inv`): EventsStillTrue, and the streams with the bytes held.
What epoll_wait reported survives what clients do (they only add bytes, end
their stream, make room or reset) and what the server does to other clients;
that a handler makes one call only keeps it for its own. The proof needs that a
buffer fits into what epoll calls writable, which is the assumption on the
constants.  NeverBlocks says what the server relies on throughout: that no
accept, read or write it makes for an event at hand can block, though its
sockets are blocking ones.  For the read it adds that a report of input without
a hang-up still finds bytes or the end of the stream (`ReadsFind`).

`BlockingServersProofs` -- SocketsOwned (OwnSocket) and Implements for
ThreadingServer; TypesCorrect (TypesOK), BlockingImplement
(ImplementsEchoService) and BlockingPromise (EchoPromised) for the three
servers.  For the threads, `Owned`: the socket accepted last belongs to nobody
until it is launched, an argument is its thread's own until it is read, and a
connection is open as long as its thread uses it.  For the other two, `Hand`:
the bytes in the buffer are the next ones of the client at hand, and of no
other; `SimpleInv` and `TurnInv` add where the server is while it has such
bytes, and that the connections in the events are open.

`ThreadsProofs`:

* condvar.c -- PlayTypeCorrect, WakeupsKept, Alternates, PlaysOn, for any
  number of rounds.  The mutex is owned exactly by the thread between its lock
  and its unlock that does not sleep, and what that thread has found in `str`
  is still there (`Locked`); `str` is the last word printed (`LastWord`).
  PlaysOn (NeverStuck): until both players are done one of them can run, and
  then every word is printed.  The words printed are in pace with the turns
  (`InPace`), so that both cannot wait for the word the other has printed.
* mutex.c -- LockTypeCorrect, Excludes, IncrementsCount, CountsExactly,
  CountsAll, for any finite set of workers and any number of rounds, with the
  spin lock; MutexCounts (MutualExclusion, CounterExact, AllCounted) for the
  worker with the pthread mutex, each of whose steps is one that the spin lock
  allows as well (`MutexIsLock`).  A worker about to store has the present
  counter in its register (`Fresh`), from which a step changes the counter only
  by one.  The increments made form a finite
  set of workers and turns that each store enlarges by one element
  (CounterExact). CountsAll (AllCounted): while a worker is left, one of them
  has the lock or it is free, so that nobody spins on a lock nobody holds; and
  when none is left, the counter is the number of workers times the rounds.
* SharedMemory -- AtomicsOrder (NeverBothZero) and SumsBounded (CountsBounded),
  for any number of rounds.  For store_buffering_bye.c (`ByeInv`), past its
  exchange the variable of a thread is 1 in memory, so the thread that
  exchanged second loads a 1.  For race_condition.c (`RaceInv`) every value of
  the counter, in memory, in a buffer or in a register, is at most the
  increments begun so far (`AtMost`); a thread sees no 0 after its own first
  store, so that its last store is of 2 at least (`AtLeast`), and the very last
  store of both is one of these (`AtEnd`).
* array_avg.c -- AddsOnce (EachOnce), for any size and number of threads.  Each
  thread has the range after the previous one's (`Ranged`), and the sum of main
  has, in increasing order, places before the range to join next
  (`Increasing`), so that none is in it twice; when the threads divide the
  size, there are as many as places.

`CopyingProofs` -- CopiesAll (Copied), KeepsNewFiles (NewFileOnly) and
FiltersKeepOrder (CopiedInOrder), for any length of the file, the input and the
buffer and any number of interferences.  For the files, `CopyInv` adds to
Copied what holds before there is a destination, that a file cp-3 creates is
empty until then (`Accounted`), and that nothing is unwritten when the next
read comes (`Placed`).  For the filters, `FilterInv`: sigint_cat.c has put out
all it took whenever it may read again, for what a SIGINT cuts off it never
reads past (`CheckedInOrder`); sigint_cat_select.c has bytes in hand in its
write only (`SelectedInOrder`).

`FibersProofs` -- EntersAsCalled (EntryAsCalled) and SwitchesBack (SwitchBack),
for stacks of any even number of words from 16 on.  The invariant (`SwitchInv`)
says of the party that does not run what a switch will find on its stack: the
registers, the place, and the rsp that belongs to it (`Suspended`); and of the
one that runs that its rsp is where its pc says (`Placed`), so that what it
pushes is on its own stack.

`PipeCloseHandlingProofs` -- SaysPeersGone and NumbersKept for
pipe_close_handling.c, FamilyPeersGone (PeersGone) and FamilyNumbers
(NumbersAccounted) for pipe_queue.c as well, for any number of painters and
numbers and any capacity.  For the first, who holds which end can be read off
the stages (`Descriptors`).  For the second, the pipe has exactly the last
numbers written, without a gap (`InPipe`), a painter has only older ones, in
order (`InOrder`), no two have the same, and an older number nobody has was in
the hands of a killed painter (`Shared`).  The two programs share that part
(`Account`), since it speaks of the numbers and not of descriptors; for threads
`Threaded` replaces `Descriptors`, and the family's invariant (`FamilyInv`) is
the one or the other.  Of both programs, SomebodyGoesOn (NeverStuck) and
NumbersGone (NothingLeft): as long as anybody is at work one process or thread
neither waits for room in the pipe nor for a number, but in a pipe_queue.c
whose threads all could not be created; and when a painter finds the end of the
numbers each one is painted, or in the hands of a painter that has read it.
They follow from the same invariant and from how each program ends
(`Endings`): a thread is killed only with its process.

Assumptions are those on the constants, which TLC evaluates in the runs:
`SocketAssumption`, `FastAssumption`, `StatefulAssumption`,
`ThreadingAssumption`, `ListenerAssumption`, `RaceAssumption`,
`ThreadsAssumption`, `PipeAssumption`, `FileCopyAssumption`,
`FilterAssumption`, `FibersAssumption`.  They say that numbers are numbers,
that buffers and queues have room for a byte, that the listening socket is no
client, that the workers are finitely many, that a thread has a round to do
(`RaceAssumption`), that a buffer of the stateful server fits into what epoll
calls writable (its 4096 bytes against a third of a socket's send buffer) and
what size the stacks have.

Only model-checked is what is about liveness, which is out of the prover's
reach: Echoed, NoDescriptorLeak, ThreadServes, AllEchoed, WorkersEnd,
PlayersEnd, GeneratorEnds, PaintersLeave, NumbersPainted, SigintEnds,
InputCopied, QuitEnds, Ends.  The only property of SignalPrinters is of this
kind, so it has no proof module.  No module uses RECURSIVE.

## 5. Findings

* `epoll_server.c:57`: `assert(wbytes == rbytes)` does not hold: a client that
  resets its connection after epoll_wait has reported its bytes, or while the
  write of them is blocked, ends the server.  Run `epoll_assertions`.  (The
  assertion on the read, line 51, holds: bytes received before a reset, and the
  end of stream, remain readable.)  `tcp_server.c:34` has the same assertion
  and `WriteShort` is how it fails there.
* `sigint_cat.c:30` says that the program periodically checks for SIGINT.  With
  SA_RESTART a SIGINT that arrives in the read, or between the check and the
  read, is not looked at before the next line of input.  Run `sigint_cat`;
  `SigintEnds` in the run `copying` shows that the next line or the end of
  input is enough, and that the variant with `select` has no such gap.
* `pipe_close_handling.c:93`: main says "all numbers was produced" also after
  generate_numbers has returned on EPIPE (lines 50-52), with numbers left that
  were never written.  Run `pipe_produced`; by `PeersGone` all painters are
  dead then.  `pipe_queue.c` has the read end itself, cannot get an EPIPE, and
  says the same line truly.
* `sigaction.c:37`: a SIGQUIT that arrives after `received_signum = 0`
  (line 36) and before pause sleeps is stored, and pause then sleeps all the
  same: the loop `while (received_signum != SIGQUIT)` does not end before
  another signal wakes it, which overwrites a SIGQUIT unless it is one.  Run
  `sigaction_quit`.  sigsuspend with the signals blocked would close the gap.

Behaviour of the code that the properties allow for, and a reader should know:
in `epoll_server_fast.c` an accept that fails for want of descriptors ends the
server with its clients; in `epoll_server_stateful.c` so does a client that
resets between epoll_wait and the write to it; in `threading_server.c` a client
that finishes, then resets while its thread writes, ends the process by
SIGPIPE, and a thread that cannot be created leaves its socket open.  Besides:

* `sigaction.c` erases a SIGQUIT that arrives between the test and
  `received_signum = 0`, sleeps over one that arrives between this and the
  sleep (see above), and forgets a signal that another one overwrites before
  the test: `QuitEnds` is stated of the SIGQUITs that come at any other place
  and are not overwritten.  `signalfd.c` loses none.
* `cp-1.c`, `cp-2.c` and `cp-3.c` empty a file that is copied to itself.
* `array_avg.c` misses size % thread_num elements when the size is not a
  multiple.
* `pipe_queue.c` does not wait for its painters: a key pressed early ends them
  with numbers in hand and in the pipe.
* `tcp_server.c` lets every other client wait while one stays.

## 6. What is left out

Of the programs that are modelled: parsing of arguments, binding and listening,
addresses, colours and logging; the contents of bytes; errors of calls that
cannot fail in the state at hand (epoll_ctl, fcntl); want of memory; an
epoll_wait interrupted by a handled signal (no server installs a handler); a
write of `sigint_cat_select.c` that fails for a reason of the output, whose
result is not used either: its output is open and blocks until it is read.  At
most MAX_EPOLL_EVENTS clients are modelled, so one epoll_wait takes all that is
ready.  Memory is that of x86 (store buffers); what else a compiler may make of
the data races has the outcomes it already allows.

Not modelled:

* `udp_server.c`, `udp_client.c`: the server keeps nothing from one datagram to
  the next and the client neither waits nor sends again; what the network
  loses, neither notices.  A model would be one of the network only.
* `pipe.c`: one writer and one command, with the closes that PipeCloseHandling
  checks for more readers.
* `shell.c`, `redirecting_shell.c`: a line, a fork, a wait; no state from one
  line to the next.  How many words a line has (`args` has ten places) is a
  matter of the input, not of an order of steps.
* `fork.c`, `exec.c`, `map_shared.c`, `threads.c`: one call with one outcome,
  or prints only.
* `tree.c`, `syscall.c`, `test.c`, `getaddrinfo.c`: recursive or plain printing
  of what one library call after another returns.
* `seccomp.c`: a filter of six instructions without a loop; a decision, not a
  behaviour.
* `sem-03-asm-x86` besides the context switches and `sem-04-simd-arm`:
  straight-line functions of registers, and floating point.
* `sem-00-intro`, `sem-01-data-representation`, `sem-05-memory`,
  `sem-11-linking`, `dev-env`: values, timings, addresses, linker flags and
  Docker commands.

## 7. Plan

What would add most from here: the safety behind QuitEnds, that signalfd.c
never passes over a SIGQUIT and that sigaction.c does so at the three places of
section 5 only, in a proof module for SignalPrinters; the same as
ForgetsNothing for the blocking servers (ThreadServes, AllEchoed);
`udp_server.c` over a network that loses and reorders datagrams, if it ever
keeps something from one datagram to the next.
