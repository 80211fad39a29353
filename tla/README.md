# Verification of osi_threads

TLA+ models of the multi-threaded programs of this repository, the TLC instances
that check them, and TLAPS proofs about them. The repository is a course on POSIX
threads: small programs that grow from creating a thread (`lab1`) over queues and
lists shared by threads (`lab2`) to an HTTP proxy with a thread per connection
(`lab3`). All programs with state of their own are modelled: the five queues and
the three lists of `lab2`, the threads built on `clone` in `lab1/code/1.6`, and
the proxy.

## The system

| part | state | operations | how its threads interact |
|---|---|---|---|
| `lab2/code/2.2/mutex` queue | linked list (`first`, `last`, nodes), `count`, `maxCount`, four counters, the mutex | `queueAdd`, `queueGet`, `queuePrintStats`, `queueInit`, `queueDestroy` | one writer, one reader and one monitor share the queue; the callers poll |
| `lab2/code/2.2/spinlock` queue | the same with a spin lock | the same | the same |
| `lab2/code/2.2/condvar` queue | the same with a mutex, one condition variable and `flagCanShareData` | the same; add and get wait | writer and reader wait for each other's turn |
| `lab2/code/2.2/semaphore` queue | the same with a mutex and the semaphores `semEmpty`, `semFull` | the same; add and get wait, and may destroy the queue | each posts the other's semaphore |
| `lab2/code/2.1` queue | the list and the counters, no lock | the same | the race the exercise demonstrates |
| `lab2/code/2.3/mutex` list | linked list with a mutex in every node, counters of pairs, swaps and passes | `countPairsWithCompare`, `countSwapPermutations`, monitor | three finders and three swappers walk and relink the list, locking neighbours |
| `lab2/code/2.3/spinlock`, `blockrw` lists | the same with spin locks, read-write locks | the same | the same; finders share read locks |
| `lab1/code/1.6` threads on `clone` | a file per stack, in it a struct with result and two flags | `myThreadCreate`, `createStack`, `myThreadStart`, `myThreadJoin` | the two flags, polled |
| `lab1/code/1.1`-`1.5` | - | one create, join, cancel or signal each | - |
| `lab3/code` proxy | the process's descriptors; sockets, an argument block and a buffer per connection | accept loop, `handleRequestConnection`, `exchangeData`, request parsing | a detached thread per connection; the descriptor table is shared |
| `lab3/code/libparser` | - | vendored request parser | - |

What is hard here: every interleaving of loops that never end over shared linked
lists; locks taken in the order of a list whose order changes; waiting without
losing a wakeup; statistics read while they change; boundaries (a queue of
capacity 0 or below, lists of fewer than three nodes); failing `malloc` and
`pthread_create` in the middle of it all; stack files that outlive the process
that wrote them; descriptors that are reused as soon as they are closed; bytes
that arrive in pieces from peers that may leave at any time. PROJECT.json lists
the hazards one by one, at their lines.

What makes each part correct:

- a queue: the reader gets 0, 1, 2, ..., none lost, doubled or out of order; the
  list is well formed and `count` is its length; a full queue takes nothing in;
  nobody is kept out for ever; a printed line of statistics is of one moment;
- the list: no node is lost or doubled, however swaps overlap; threads never wait
  in a circle; what is locked is unlocked; a pass nobody disturbs counts exactly;
- the proxy: every thread uses its own sockets, each is closed once on every path,
  a client gets what its host answers and nothing else, and no client waits for
  ever;
- the threads on `clone`: `myThreadJoin` returns what the routine returned, and
  only after it has returned it; a thread's stack is its own until it ends.

## Modules

A step of a model is what other threads can tell apart: one acquisition, one
release, and each access to shared memory that is not protected. Work under a
lock is split only where it makes a state others could see or a failure could
leave behind. Printing, thread pinning (`set_cpu`) and wording are left out.

| module | models |
|---|---|
| `QueueT` | `queueT` and `qnodeT`: fields, linking, unlinking, counters that wrap |
| `QueueProgram` | `main`, the locals and control points of writer, reader and monitor, the end of the process |
| `BoundedFifo` | abstract: a bounded queue of consecutive numbers |
| `MutexQueue`, `SpinQueue`, `CondvarQueue`, `SemQueue` | the four synchronised queues, each on top of the two modules above; `SpinQueue` instantiates `MutexQueue` and replaces `queueGet` |
| `RacyQueue` | the queue of 2.1, one step per load or store of shared memory |
| `Shuffle` | abstract: a list whose neighbours behind the first change places |
| `SwapList` | the three lists of 2.3: a mutex, a spin lock or a read-write lock per node |
| `ThreadJoin` | abstract: threads that run a routine once, and joins that hand over its result |
| `MyThread` | threads on `clone`, their `main`, the files their stacks are in, processes one after the other |
| `Proxy` | the accept loop, the connection threads, the descriptor table; clients and hosts as the proxy's calls see them |
| `QueueTProofs` | lemmas on the operators of `QueueT`, for the proofs about the queues |
| `MutexQueueProofs`, `CondvarQueueProofs`, `SemQueueProofs`, `RacyQueueProofs`, `SwapListProofs`, `MyThreadProofs`, `ProxyProofs` | theorems about the module of that name; the first one also about `SpinQueue` |
| `MC...` | instances for TLC |

### Queues

`pc[t]` is the control point of thread `t`; the head of each module shows the
path through its operations. Actions are named for the operation and the point:
`AddTest` is the part of `queueAdd` from the attempt counter to the test of
`count`, `GetTake` the part of `queueGet` that unlinks a node. `main` is at the
name of the thread it creates next (the monitor is created inside `queueInit`),
so threads run before others exist, as in the code. A thread that aborts, fails an
assert or returns from `main` ends the process: `status` says why and every
thread stops.

`heap` is the set of allocated nodes; `malloc` picks any block outside it, so
blocks are reused in every possible way, and it may fail although blocks are
left. `chain` is an auxiliary variable, the list as a sequence; `ListIntact` ties it to
`first`, `last` and `next`. `last` dangles when the queue is empty, as in the
code. C integers are residues (`IntRange`, `LongRange`), so counters wrap and
behaviours need not end.

`contents`, `accepted` and `delivered` are the refinement mapping to
`BoundedFifo`: a number is put when its node is linked and taken when its node is
unlinked, wherever the threads are then.

The condition variable is the set `waiters` of blocked threads;
`pthread_cond_wait` enters it and gives the mutex away in one step, a signal
removes any one thread, and a spurious wakeup may remove one at any time. The
memory `queueInit` leaves as `malloc` returned it is the constant `FlagAtStart`.

When `malloc` fails in the mutex or the semaphore variant, `queueAdd` runs
`queueDestroy` and then `abort`. These are two steps (`AddNoMemory`, `AddAbort`), for
in between the other threads may use what has been freed. In `MutexQueue` the writer
has the mutex all the time, but frees it with the queue; a thread that then goes for
it ends the run in `"use_after_destroy"` (`LocksFreedQueue`). The other two variants
free nothing before they abort, so their `AddNoMemory` ends the process at once.

In `SemQueue`, `destroyed` says that some thread has run `queueDestroy`, because it
was refused or for want of memory; a thread
that is about to touch the queue after that ends the run in
`"use_after_destroy"`: nothing is defined beyond it.

`RacyQueue` splits every read-modify-write into its load and its store and puts
`WILD` into the fields of a freed block. Its `queueDestroy` is modelled node by node
under a reader that goes on: both walk and free the same list, the allocator may
notice a double free or not, and once the queue itself is freed the reader finds
anything in it, a `count` below 0 that fails its assert included. The model
assumes that the compiler keeps the order of the source, which holds for the flags
of the Makefile (no optimisation) on x86.

### Lists

`kind` says which of the three programs runs; nothing changes it. They have the
same statements around different locks, so there is one action for each step of
a walk, and `Acquire` and `Release` are the wrappers the three programs call.
`sync[n]` is the set of threads that hold the lock of node `n`: only read locks
are ever shared. In the map of PROJECT.json the steps of a walk stand for the
file of the mutex list, `Finder`, `Swapper` and `Next` for that of the list with
read-write locks, and the control points, counters and `CreateFails` for that of
the list with spin locks; each of the three files has them all.

A walk keeps a pointer and no lock between two rounds. Reading
`n.next` under the lock of `n` is one step with the locking of the node it finds.
That loses no behaviour because nobody can change `n.next` in between, which is
not assumed but checked (`NextIsGuarded`). The three stores of a swap are three
steps, the test for three elements, made without a lock, is two, and the `++` on
the shared counter is a load and a store. Locking a lock one has and unlocking
one that one has not sets `status` to `"lock_error"`: the mutexes are error
checking and abort the program, and for the other locks nothing is defined.

`main` starts three finders, three swappers and a monitor; the constant `threads`
is its array, and the instances start some of them, in that order.

`order` is a history variable: the list as the completed swaps leave it.
`swaps` counts these swaps; `calm` and `before` record whether a finder's
current pass has been disturbed and what its counter was when it began.

### Threads on clone

`file` holds, for every id, the struct at the top of `stack-<id>`: what
`ftruncate`, `memset` and the assignments of `myThreadCreate` leave there, and
later the stores of `myThreadStart` and `myThreadJoin`, one step each. Since a
shared mapping is the file, `file` survives `Kill` and `Restart`, and everything
else starts anew. Failing calls end `main`, and with it all threads
(`CreateFails`). `phase`, the local `routineVal` and main's `retVal` are the
refinement mapping to `ThreadJoin`.

### Proxy

`table` is the process's descriptor table, from which every `accept` and
`socket` takes the lowest free entry. A thread's `cfd` and `hfd` are numbers, and
what it reads and writes is whatever the table has at that number: had somebody
else closed it, that could be another connection, and `DescriptorsOwned` and
`StreamsAreRelayed` say that this does not happen. `args[c]` is the block `malloc`
returns for the thread of `c`.

Bytes are pieces `<<c, k>>`. A read takes any number of the pieces that have
arrived; a request counts as parsed when the pieces up to `LineEnd[c]`, which
carry method and path, have been read. With fewer `phr_parse_request` leaves the
pointers null, and `parseHttpRequest` follows them (`ParseCrashes`). Writing to a
peer that has gone is lost, refused or the end of the process by `SIGPIPE`.
When `main` gives up it closes the listener or the client it has just accepted
(`AcceptorGivesUp`, `AcceptorTurnsAway`); the other threads run on until it returns.
Clients, hosts and the kernel are not in the repository; the actions named
`Client...` and `Host...` offer everything the calls of the proxy can meet.

## What the runs check

| run | bounds | shows |
|---|---|---|
| `mutex` | capacities -1..3, 2 blocks, 4 attempts per side, `FairSpec` | reader's sequence, list, statistics, asserts; implements `BoundedFifo`; the mutex is released |
| `spin` | capacities -1..2, 3 blocks, unbounded | implements `BoundedFifo`; the lock is given back; numbers are delivered if it is fair |
| `condvar` | capacities -1..2, 2 blocks, counters modulo 3, unbounded | no lost wakeup; the turn flag fits the list; implements `BoundedFifo` with its fairness |
| `sem` | capacities -1..2, 2 blocks, unbounded | one token; alternation; a queue in use is destroyed for capacity 0 or for want of memory only |
| `racy_safety` | capacities -1..2, 4 blocks, 7 calls of `queueAdd` | what the race cannot break before the queue is destroyed |
| `list_safety` | mutexes; lists of 0 to 3 and of 5 nodes, 1 finder with 2 passes, 2 swappers, no swap begun after the third | list, locks, counters; implements `Shuffle` |
| `list_passes` | spin locks and read-write locks; lists of 2, 3 and 4 nodes, 2 finders, 1 swapper, passes unbounded, 2 swaps | no circular waiting; locks are released and finders complete their passes if finders get their locks |
| `mythread` | 2 threads, 2 results, 2 processes one after the other | implements `ThreadJoin`; live stacks are left alone; `main` ends |
| `proxy` | 2 connections, 3 or 5 descriptors, requests and answers of 2 pieces | descriptors, streams, every client is served |
| `condvar_garbage`, `sem_zero`, `list_giveup` | as small as the case allows | the three findings below |

"Unbounded" runs set `MaxAttempts` (or `MaxPasses`) to what the wrapped counter
never reaches, so the threads loop for ever and the finite state space is all
there is. They need small widths: `LongRange = 1` removes the statistics, which
`mutex` and `condvar` look at instead.

Why the bounds are enough: 2 blocks and capacity 1 or 2 give every shape of the
list the code distinguishes (empty, one node, more), a full queue, a failing
`malloc` at each fill level and reuse of a freed block while `last` still points
to it; capacity 3 is a queue that runs out of blocks before it is full. `spin`,
which loops for ever, has a third block.
`IntRange = 3` is one more than two nodes need to tell neighbours apart. Circular waiting of two threads needs two nodes seen in opposite orders
and of three threads three nodes: five nodes and three threads have both, and
each swap changes the order the locks follow while it is in use. A swapper only
moves on by swapping, so it takes two swaps to be at the third node: with five
nodes and three swaps one swap works on nodes 1 to 3 while another one holds
nodes 3 to 5 (a swap that does not wait for its third node then breaks
`ListMatchesOrder`, and does not with fewer nodes or swaps). Two swaps that both
have their three nodes, and so are both at their stores, need six nodes; that case
is left to the theorem `ListSafe`. In `list_passes` the lists of 2 and 3 nodes take
the swapper through every branch for the end of the list. For the
safety properties none of these bounds matters in the end, as their theorems
hold for all of them; they matter for liveness and for the mutants.
`MyThread` has what its `main.c` has, two threads, and the second process meets
every file the first one can have left. In `Proxy` two connections are enough for
one to get the number the other has just closed; under a limit of 3 two clients
leave no descriptor for a host, and a served one none for the other client, so
`socket` and `accept` fail; 5 is exactly what two connections need at a time. Of the two clients one has its request
line in the first piece and the other in both.

Fairness. `FairSpec` says that every thread that can take a step eventually does,
which is what the scheduler gives every runnable thread. For the polling queues
it says nothing about who gets the lock: neither a default pthread mutex nor a
spin lock is handed over fairly, so the second part of `LockServesAll`, that
numbers are delivered, has that as its premise; the first part, that a thread which
has the lock gives it back, has none. In `CondvarQueue` writer and reader block when it is not their turn and
the monitor sleeps between two calls, so the mutex is free most of the time and a
thread that wants it again and again is assumed to get it in the end (strong fairness of
the acquisitions). In the semaphore queue nobody ever meets a locked mutex, and
weak fairness is enough. `SwapList` assumes weak fairness of every thread and nothing
of the locks. A swapper that never moves on takes the same locks again and again,
and a finder that waits for one of them need not ever get it; so `LocksAreReleased`
and `PassesComplete` have the premise `LocksFair`, that a lock which is free again and
again goes to each waiting finder some time, and TLC finds both violated without it.
Of swappers they assume no such thing: readers may hand a read lock to one another
and keep a swapper out for ever, which POSIX permits, so nothing may depend on a
swapper's getting its first lock. `LocksAreReleased` holds nevertheless, for once it
has that lock nobody passes it. Nothing is assumed about the random choice to swap.
`InTheWay` lets a waiting swapper shut out finders, which POSIX permits as well:
`NoCircularWait` holds for read-write locks that prefer writers, although a
finder asks for a second read lock while it has one.

`MyThread` assumes that `main` and every thread run when they can and that
`startRoutine` returns. A process that is killed ends, so `MainIsDone` counts
that as an end, as it does a failed call. `Proxy` assumes that threads run when
they can, that a client that stays sends all of its request and that every host
closes its connection some time, as the proxy, which speaks HTTP/1.0 and waits
for the end of the stream, needs. Nothing is assumed of `accept` failing less
often, or of clients leaving.

`CHECK_DEADLOCK FALSE` appears in `SwapList_safety.cfg` and
`SwapList_giveup.cfg` only: on a list that is too short the routines return, and
a finder stops after `MaxPasses`. Circular waiting is an invariant there.

### Findings

- `condvar_garbage`: `queueInit` leaves `flagCanShareData` unset. If the memory
  holds 1, writer and reader wait for each other from the start.
- `sem_zero`: with capacity 0 the first `queueAdd` frees the queue all threads
  are using.
- `list_giveup`: a swapper that tests the length of a list of three nodes while
  another one swaps its tail finds it too short and ends.

Things the models have as steps but no run is spent on:

- `queueGet` of the spin lock variant never counts its attempts, although the
  header says the field is their number (`SpinQueue` leaves the step out);
- the statistics of the semaphore variant are five unlocked copies, so a line may
  show more successes than attempts;
- a `malloc` that fails in the semaphore variant destroys a queue of any capacity
  while monitor and reader may be using it, before `abort` ends the process
  (`AddNoMemory`); in the mutex variant it frees a mutex others may wait for;
- the queue of 2.1 loses numbers and may crash, as `lab2/README.md` explains at
  length; out of memory, its `queueDestroy` frees the list under the reader
  (`DestroyFree`), which may free a node twice or read from a freed one;
- `SWAP_PERMUTATIONS_COUNT` is incremented under locks of different nodes and
  loses updates (`SwapLoad`, `SwapStoreCount`);
- when `pthread_create` fails the proxy keeps the client's socket open
  (`CreateThreadFails`), and a request line that comes in two pieces or a client
  that leaves early may end the whole process (`ParseCrashes`, `RelayToNobody`).

## What is proved

Every safety property a passing run checks is also a theorem: all type
invariants, all other invariants, the two action properties and the refinements
of the three abstract specifications (of `BoundedFifo` by all four synchronised
queues). The runs show them on small instances, with the mutants of the code
that break them; the theorems hold for every value of the constants: any
capacities, blocks, nodes, threads, connections and integer widths, any bound on
the attempts. The proofs rest on the named `ASSUME`s of the modules and nothing
else: the null pointer is no block, `WILD` neither a block nor a number, `NoOne` is no thread, widths are positive,
the lists main builds and its array of threads name nothing twice, a process has
at least one limit on descriptors and there are finitely many limits. Two theorems
have a hypothesis of their own, named below.

| module | theorem | states |
|---|---|---|
| `MutexQueueProofs` | `TypeCorrect`, `SequenceIsRead`, `ListIsConsistent`, `AssertionHolds`, `PrintedLinesAgree` | `TypeOK`, `ReaderSeesSequence`, `ListAgreesWithCount`, `AssertOnlyForNegativeCapacity`, `PrintedStatsConsistent` |
| | `Refinement`, `SpinRefinement` | `ImplementsFifo`, of the mutex and the spin lock queue |
| `CondvarQueueProofs` | `TypeCorrect`, `TurnsAlternate`, `WakeupsKept`, `PrintedLinesAgree` | `TypeOK`, `TurnMatchesList`, `NoLostWakeup`, `PrintedStatsConsistent` |
| | `AssertionsHold`, `Refinement` | `AssertOnlyForNegativeCapacity`, `ImplementsFifo` |
| `SemQueueProofs` | `TypeCorrect`, `TokenIsUnique`, `DestructionHasCause` | `TypeOK`, `OneToken`, `DestroyedForCause` |
| | `AssertionsHold`, `Refinement` | `AssertOnlyForNegativeCapacity`, `ImplementsFifo` |
| `RacyQueueProofs` | `TypeCorrect`, `AssertionsHold`, `OrderIsKept` | `TypeOK`, `AssertsHold`, `NumbersInOrder` |
| `SwapListProofs` | `TypeCorrect`, `ListSafe`, `LocksSafe`, `PassExact` | `TypeOK`, `ListMatchesOrder`, `LockDiscipline`, `UndisturbedPassIsExact` |
| | `Guarded`, `Refinement` | `NextIsGuarded`, `ImplementsShuffle` |
| `MyThreadProofs` | `TypeCorrect`, `StackIsKept`, `Refinement` | `TypeOK`, `LiveStackIsKept`, `ImplementsJoin` |
| `ProxyProofs` | `TypeCorrect`, `DescriptorsAreOwned`, `StreamsKept` | `TypeOK`, `DescriptorsOwned`, `StreamsAreRelayed` |

Few of the properties are inductive by themselves. Each module has a
strengthening that is, one lemma for each action or group of actions that keeps
it, and the theorems that follow from it. TLC checked the strengthenings as
invariants of the runs before they were proved.

**The synchronised queues** share the lemmas of `QueueTProofs` about linking and
unlinking a node: what they do to the list, to its values and to `contents`. All
four strengthenings have `ListIntact`; that `count` is the length but for the
step under way (`CountInv`); that a thread past its test still has the room or
the element it found (`TestedInv`, `CapacityInv`); that the value on its way to
the reader's check is the expected one (`ReaderInv`); and that the values in the
list are exactly the numbers between what has been delivered and what has been
accepted (`ValuesInv`), which is why the value the reader takes is the one it
expects. `count` is never below 0 where `queueGet` looks at it, so its assert never
fails; the assert of `queueAdd` fails for a negative capacity only
(`AssertionHolds`, `AssertionsHold`). They differ in what keeps the threads apart:

- mutex: the holder of the mutex is the one thread inside the critical section
  (`LockInv`). The statistics need a second invariant, `StatsInv`: additions are
  ahead of removals by `count`, and attempts are not behind successes. The
  latter is true only of counters that do not wrap, so `PrintedLinesAgree` has
  the hypothesis `MaxAttempts < LongRange`. While the monitor has the mutex its
  copies agree with the fields (`CopyInv`).
- spin lock: `MutexQueueProofs` instantiates `SpinQueue` with the mutex for its
  lock and shows that all its steps are steps of the mutex queue but those of `queueGet` that
  do not count an attempt and the end for want of memory, and that these keep the
  same invariant and are not seen by the bounded queue.
- condition variable: `TurnInv` says that the flag is the reader's turn when there
  is an element, and can be so without one only if `queueInit` found it so. So
  `TurnsAlternate` has the hypothesis `PROHIBIT_SHARE \notin FlagAtStart`: without
  it flag and `count` disagree from the start (what follows from that is the run
  `condvar_garbage`). `WakeupsKept` and `Refinement` hold without it. `NoLostWakeup` is a part of the strengthening.
- semaphores: one token (`TokenInv`); where it is tells how many elements there
  are (`PlaceInv`); with no place nothing is added and with a negative capacity
  the reader is never let in (`NoPlaceInv`), so that only for capacity 0 a thread
  refuses (`RefuseInv`) and a queue with room is destroyed only by a writer that is
  about to abort. Mutual exclusion follows from the token alone.

**The queue without synchronisation**: `CountInv` says that each thread moves
`count` only away from the bound the other has tested, also when what it writes
back is out of date. `PtrInv` is about the list. Until the writer destroys it
`ListInv` holds; from then on only `ReadInv`, that `first` is still the block whose
`next` the reader is about to read. `ListInv` says: the blocks in use hold
different numbers, each block's successor the next one (`BlocksInv`); nobody can
reach the writer's block before it is linked (`FilledInv`); `last` is the newest
block or dangles, and while it dangles the list is empty (`LastInv`), which is
why a block linked to freed memory is lost but breaks nothing; what the reader
has loaded is still so when it uses it (`FirstInv`).

**The lists**: `Held(t)` is what thread `t` has locked according to its control
point, and `LockInv` says that `sync` agrees with it. `SwapInv` says that the
three nodes of a swap are neighbours in `order` and which of the three stores have
been made; `WalkInv` that a walk stands at a node of the list. With the lock of a
node in hand a thread finds its successor in `order` in the next field
(`HeldNext`); this carries `ListMatchesOrder` through the stores, and
`OrderOnlyBySwap` with `SwapIsExchange` makes it the refinement of `Shuffle`. There
is no circular waiting because a thread has locked only nodes before the one it
waits for (`WaitsAhead`): of the threads in a circle, the one that waits for the
node furthest back would have to wait for somebody who waits further back. This holds at every moment although the order changes, since
nodes change places only while their swapper has all three locked. `PassAt` says
what a finder's counter has to be in the middle of a pass nobody has disturbed.

**Threads on clone**: `StructInv` gives the struct in the stack of each thread that
has been started, from where the thread and main are and independently of what
the file held before; `JoinInv` says that main is past its poll only when the
thread has stored everything.

**The proxy**: `OwnInv` says of every entry of the descriptor table whose it is, so
that `accept` and `socket`, which take a free entry, and every `close` keep it. That
the lowest free entry exists and is one comes from the library's theorems on
well-founded orders (`LeastOne`). `StreamInv` says of each connection where its
request and its answer are: waiting, in the buffer or delivered.

Only model-checked is liveness: `MutexIsReleased`, `LockServesAll`,
`FifoProgress`, `Alternates`, `LocksAreReleased`, `PassesComplete`, `MainIsDone` and
`ClientsAreServed`. Fairness and ENABLED are beyond the prover.

## Not modelled

`queueDestroy` in the regular course of the programs: `main` reaches it after
joining threads that never end. It is modelled where it does run: in the
semaphore queue that is refused, and before the `abort` after a failed `malloc`. Failures of
`queueInit` and `createStorage` before the first thread exists end the program
with nothing shared. The contents of the list's strings matter through their
lengths only; `generateRandomString` leaves a byte unset, which changes a length
and nothing else. The monitors of the lists and of 2.1 read counters and
print them.

Threads on `clone`: two processes at a time in one directory, whose stacks would
be the same files, and a kernel that gives threads a common `errno` because they
are cloned without `CLONE_SETTLS`.

Proxy: writes that block or are short, the characters of host names and the
lengths of the arrays they are copied into, what a reset makes of data that
was written before it, the wording of errors. `libparser` is third-party
code, modelled by the one thing the proxy depends on: which pointers are set when
the data ends early.

`queue-example.c` is one thread with a fixed sequence of calls. The exercises
1.1-1.5 of `lab1` create, join, cancel or signal one thread, or create threads
until the system refuses (`1.2/f.c` prepares the attributes of a detached
thread without passing them, so finished threads pile up); they have no state
that more than one step of one thread depends on.

## Plan

What is left is to make more of the proofs:

1. `SwapList`: safety of what the swappers report, for instance that a swapper
   which gives up has seen fewer than three nodes linked at some time.
2. `SpinQueue`, `SemQueue`, `CondvarQueue`: the invariants `MutexQueueProofs` states
   of the mutex queue (the reader's sequence, the list between two steps) as
   theorems of theirs; they are parts of the strengthenings already.
3. `RacyQueue`: which numbers can be lost, as a refinement of a lossy queue.
