------------------------------ MODULE SwapList ------------------------------
(***************************************************************************)
(* lab2/code/2.3: a linked list with a lock in every node.  Finders walk   *)
(* the list and compare neighbours; swappers walk it and sometimes         *)
(* exchange the two nodes behind the one they are at.  A walk locks a node *)
(* and then its successors, lets go of all of them, and goes on from the   *)
(* pointer it has kept.                                                    *)
(*                                                                         *)
(* There are three programs: mutex, spinlock and blockrw.  They differ in  *)
(* the lock and in nothing else; finders of blockrw take it for reading.   *)
(*                                                                         *)
(* finder:   start -> pass -> first -> second -> compare -> release -> ... *)
(* swapper:  check -> check_next -> choose -> first -> second -> third ->  *)
(*           store1 -> store2 -> store3 -> load -> store_count ->          *)
(*           release1 -> release2 -> release3 -> choose                    *)
(*           or choose -> hold1 -> hold2 -> drop2 -> drop1 -> choose       *)
(*                                                                         *)
(* Reading n.next under the lock of n is one step with the locking of the  *)
(* successor it finds: only the holder of n's lock ever writes n.next or,  *)
(* with the three locks of a swap, that of its successor (NextIsGuarded).  *)
(***************************************************************************)
EXTENDS Naturals, Sequences, FiniteSets

CONSTANTS
  Kinds,      \* the programs to look at
  Node,       \* list nodes
  NULL,       \* the null pointer
  Storages,   \* the lists main may build, as sequences of nodes
  length,     \* strlen of each node's value
  threads,    \* main's array of threads to start, the monitor among them
  Finders,    \* those that count pairs
  Swappers,   \* those that swap
  Width,      \* 2^32: the counters are ints, told apart modulo Width
  MaxPasses,  \* bound: passes after which a finder stops
  MaxSwaps    \* bound: swaps after which no further one is begun

Workers == Finders \cup Swappers

ASSUME SwapListAssumption ==
  /\ Kinds \subseteq {"mutex", "spin", "rw"}
  /\ NULL \notin Node
  /\ \A s \in Storages :
       /\ s \in Seq(Node)
       /\ \A j, k \in 1 .. Len(s) : s[j] = s[k] => j = k
  /\ length \in [Node -> Nat]
  /\ threads \in Seq(Workers \cup {"monitor"})
  /\ \A j, k \in 1 .. Len(threads) : threads[j] = threads[k] => j = k
  /\ Finders \cap Swappers = {}
  /\ Width \in Nat \ {0} /\ MaxPasses \in Nat /\ MaxSwaps \in Nat

VARIABLES
  kind,          \* which program this is
  first,         \* Storage: the head of the list
  next, sync,    \* the nodes' next fields, and who holds their locks
  SWAP_PERMUTATIONS_COUNT,
  iterationsCount, compareCount,   \* of each finder
  created,       \* main: how many of the threads it has started
  pc,
  curr,          \* finder: curr; swapper: curr1
  curr2, curr3,  \* swapper: its other pointers
  reg,           \* finder: amountPair; swapper: register of the ++
  status,        \* "running", or what ended the process
  order,         \* history: the list as the swaps done so far leave it
  swaps,         \* history: how many that are
  calm, before   \* history: no swap since the finder's pass began, and its
                 \* compareCount then

list     == <<first, next>>
counters == <<SWAP_PERMUTATIONS_COUNT, iterationsCount, compareCount>>
locals   == <<curr, curr2, curr3, reg>>
history  == <<order, swaps, calm, before>>
vars     == <<kind, list, sync, counters, created, pc, locals, status, history>>

(* main has built the list before it starts the first thread. *)
Init ==
  /\ kind \in Kinds
  /\ order \in Storages
  /\ first = IF order = <<>> THEN NULL ELSE order[1]
  /\ next = [n \in Node |->
       IF \E k \in 1 .. Len(order) - 1 : order[k] = n
       THEN order[1 + CHOOSE k \in 1 .. Len(order) - 1 : order[k] = n]
       ELSE NULL]
  /\ sync = [n \in Node |-> {}]
  /\ SWAP_PERMUTATIONS_COUNT = 0
  /\ iterationsCount = [f \in Finders |-> 0]
  /\ compareCount = [f \in Finders |-> 0]
  /\ created = 0
  /\ pc = [t \in Workers |-> "unborn"]
  /\ curr = [t \in Workers |-> NULL]
  /\ curr2 = [s \in Swappers |-> NULL]
  /\ curr3 = [s \in Swappers |-> NULL]
  /\ reg = [t \in Workers |-> 0]
  /\ status = "running"
  /\ swaps = 0
  /\ calm = [f \in Finders |-> TRUE]
  /\ before = [f \in Finders |-> 0]

-----------------------------------------------------------------------------

Step(t, from, to) ==
  /\ status = "running"
  /\ pc[t] = from
  /\ pc' = [pc EXCEPT ![t] = to]
  /\ UNCHANGED kind

(* Thread t enters the holders of n's lock beside others of a given set.   *)
(* To lock what one has locked, or to unlock what one has not, is an       *)
(* error: the mutexes are error checking and the program aborts, a write   *)
(* lock reports the first, and for a spin lock anything may follow.        *)
Hold(t, n, others) ==
  /\ sync[n] \ {t} \subseteq others
  /\ sync' = [sync EXCEPT ![n] = @ \cup {t}]
  /\ status' = IF t \in sync[n] THEN "lock_error" ELSE status

Drop(t, n) ==
  /\ sync' = [sync EXCEPT ![n] = @ \ {t}]
  /\ status' = IF t \notin sync[n] THEN "lock_error" ELSE status

execMutexlock(t, n)    == kind = "mutex" /\ Hold(t, n, {})
createSpinlock(t, n)   == kind = "spin" /\ Hold(t, n, {})
execRWlockWRlock(t, n) == kind = "rw" /\ t \in Swappers /\ Hold(t, n, {})

(* Mutant of execRWlockRDlock: readers do not mind a writer. *)
RDlockBesideWriter(t, n) ==
  kind = "rw" /\ t \in Finders /\ Hold(t, n, Workers)

execRWlockRDlock(t, n) == kind = "rw" /\ t \in Finders /\ Hold(t, n, Finders)

Acquire(t, n) == \/ execMutexlock(t, n) \/ createSpinlock(t, n)
                 \/ execRWlockWRlock(t, n) \/ execRWlockRDlock(t, n)

execMutexUnlock(t, n)  == kind = "mutex" /\ Drop(t, n)
destroySpinlock(t, n)  == kind = "spin" /\ Drop(t, n)
execRWlockUnlock(t, n) == kind = "rw" /\ Drop(t, n)

Release(t, n) == \/ execMutexUnlock(t, n) \/ destroySpinlock(t, n)
                 \/ execRWlockUnlock(t, n)

-----------------------------------------------------------------------------
(* countPairsWithCompare. *)

(* increasingLengthCompare, decreasingLengthCompare, equalLengthCompare    *)
(* (the first two count what the other's name says).                       *)
compare(f, m, n) ==
  \/ f = "increasing" /\ length[m] > length[n]
  \/ f = "decreasing" /\ length[m] < length[n]
  \/ f = "equal"      /\ length[m] = length[n]

(* There is no pair in the list, as far as a thread without locks sees.    *)
NoPair == first = NULL \/ next[first] = NULL

FinderStart(f) ==
  /\ Step(f, "start", IF NoPair THEN "done" ELSE "pass")
  /\ UNCHANGED <<list, sync, counters, created, locals, status, history>>

FinderPass(f) ==
  /\ Step(f, "pass", "first")
  /\ iterationsCount[f] < MaxPasses
  /\ curr' = [curr EXCEPT ![f] = first]
  /\ calm' = [calm EXCEPT ![f] = TRUE]
  /\ before' = [before EXCEPT ![f] = compareCount[f]]
  /\ UNCHANGED <<list, sync, counters, created, curr2, curr3, reg, status, order, swaps>>

FinderEnd(f) ==
  /\ Step(f, "first", "pass")
  /\ curr[f] = NULL
  /\ iterationsCount' = [iterationsCount EXCEPT ![f] = (@ + 1) % Width]
  /\ UNCHANGED <<list, sync, SWAP_PERMUTATIONS_COUNT, compareCount, created>>
  /\ UNCHANGED <<locals, status, history>>

FinderFirst(f) ==
  /\ Step(f, "first", "second")
  /\ curr[f] # NULL
  /\ Acquire(f, curr[f])
  /\ UNCHANGED <<list, counters, created, locals, history>>

FinderSecond(f) ==
  /\ Step(f, "second", "compare")
  /\ next[curr[f]] # NULL
  /\ Acquire(f, next[curr[f]])
  /\ UNCHANGED <<list, counters, created, locals, history>>

(* Mutant of FinderLast: curr stays at the last node. *)
FinderLastStays(f) ==
  /\ Step(f, "second", "first")
  /\ next[curr[f]] = NULL
  /\ Release(f, curr[f])
  /\ UNCHANGED <<list, counters, created, locals, history>>

FinderLast(f) ==
  /\ Step(f, "second", "first")
  /\ next[curr[f]] = NULL
  /\ curr' = [curr EXCEPT ![f] = NULL]
  /\ Release(f, curr[f])
  /\ UNCHANGED <<list, counters, created, curr2, curr3, reg, history>>

(* Mutant of FinderCompare: the two strings are passed in the other order. *)
FinderCompareReversed(f) ==
  /\ Step(f, "compare", "release")
  /\ reg' = [reg EXCEPT ![f] = IF compare(f, next[curr[f]], curr[f]) THEN 1 ELSE 0]
  /\ curr' = [curr EXCEPT ![f] = next[curr[f]]]
  /\ Release(f, curr[f])
  /\ UNCHANGED <<list, counters, created, curr2, curr3, history>>

FinderCompare(f) ==
  /\ Step(f, "compare", "release")
  /\ reg' = [reg EXCEPT ![f] = IF compare(f, curr[f], next[curr[f]]) THEN 1 ELSE 0]
  /\ curr' = [curr EXCEPT ![f] = next[curr[f]]]
  /\ Release(f, curr[f])
  /\ UNCHANGED <<list, counters, created, curr2, curr3, history>>

FinderRelease(f) ==
  /\ Step(f, "release", "first")
  /\ Release(f, curr[f])
  /\ compareCount' = [compareCount EXCEPT ![f] = (@ + reg[f]) % Width]
  /\ reg' = [reg EXCEPT ![f] = 0]
  /\ UNCHANGED <<list, SWAP_PERMUTATIONS_COUNT, iterationsCount, created>>
  /\ UNCHANGED <<curr, curr2, curr3, history>>

Finder(f) == \/ FinderStart(f) \/ FinderPass(f) \/ FinderEnd(f)
             \/ FinderFirst(f) \/ FinderSecond(f) \/ FinderLast(f)
             \/ FinderCompare(f) \/ FinderRelease(f)

-----------------------------------------------------------------------------
(* countSwapPermutations. *)

(* The test for three elements reads next fields without a lock: that of   *)
(* the first node, and then that of the node it has found.                 *)
SwapCheck(s) ==
  /\ Step(s, "check", IF NoPair THEN "done" ELSE "check_next")
  /\ curr2' = [curr2 EXCEPT ![s] = IF NoPair THEN NULL ELSE next[first]]
  /\ UNCHANGED <<list, sync, counters, created, curr, curr3, reg, status, history>>

SwapCheckNext(s) ==
  /\ \/ /\ Step(s, "check_next", "done")
        /\ next[curr2[s]] = NULL
        /\ UNCHANGED curr
     \/ /\ Step(s, "check_next", "choose")
        /\ next[curr2[s]] # NULL
        /\ curr' = [curr EXCEPT ![s] = first]
  /\ curr2' = [curr2 EXCEPT ![s] = NULL]
  /\ UNCHANGED <<list, sync, counters, created, curr3, reg, status, history>>

(* willSwap is random. *)
SwapChoose(s) ==
  /\ curr[s] # NULL
  /\ \/ swaps < MaxSwaps /\ Step(s, "choose", "first")
     \/ Step(s, "choose", "hold1")
  /\ UNCHANGED <<list, sync, counters, created, locals, status, history>>

SwapEnd(s) ==
  /\ Step(s, "choose", "check")
  /\ curr[s] = NULL
  /\ UNCHANGED <<list, sync, counters, created, locals, status, history>>

SwapFirst(s) ==
  /\ Step(s, "first", "second")
  /\ Acquire(s, curr[s])
  /\ UNCHANGED <<list, counters, created, locals, history>>

SwapLast(s) ==
  /\ Step(s, "second", "choose")
  /\ next[curr[s]] = NULL
  /\ curr' = [curr EXCEPT ![s] = NULL]
  /\ Release(s, curr[s])
  /\ UNCHANGED <<list, counters, created, curr2, curr3, reg, history>>

SwapSecond(s) ==
  /\ Step(s, "second", "third")
  /\ next[curr[s]] # NULL
  /\ Acquire(s, next[curr[s]])
  /\ UNCHANGED <<list, counters, created, locals, history>>

(* Only two nodes are left: on to the second, the locks go first to last.  *)
SwapTail(s) ==
  /\ Step(s, "third", "drop1")
  /\ next[next[curr[s]]] = NULL
  /\ curr' = [curr EXCEPT ![s] = next[curr[s]]]
  /\ Release(s, curr[s])
  /\ UNCHANGED <<list, counters, created, curr2, curr3, reg, history>>

(* Mutants of SwapThird: a third node that is locked by another thread is  *)
(* used all the same, and the pointers are one node behind.                *)
SwapThirdTried(s) ==
  /\ Step(s, "third", "store1")
  /\ next[next[curr[s]]] # NULL
  /\ sync' = [sync EXCEPT ![next[next[curr[s]]]] = IF @ = {} THEN {s} ELSE @]
  /\ curr2' = [curr2 EXCEPT ![s] = next[curr[s]]]
  /\ curr3' = [curr3 EXCEPT ![s] = next[next[curr[s]]]]
  /\ UNCHANGED <<list, counters, created, curr, reg, status, history>>

SwapThirdBehind(s) ==
  /\ Step(s, "third", "store1")
  /\ next[next[curr[s]]] # NULL
  /\ Acquire(s, next[next[curr[s]]])
  /\ curr2' = [curr2 EXCEPT ![s] = curr[s]]
  /\ curr3' = [curr3 EXCEPT ![s] = next[curr[s]]]
  /\ UNCHANGED <<list, counters, created, curr, reg, history>>

SwapThird(s) ==
  /\ Step(s, "third", "store1")
  /\ next[next[curr[s]]] # NULL
  /\ Acquire(s, next[next[curr[s]]])
  /\ curr2' = [curr2 EXCEPT ![s] = next[curr[s]]]
  /\ curr3' = [curr3 EXCEPT ![s] = next[next[curr[s]]]]
  /\ UNCHANGED <<list, counters, created, curr, reg, history>>

(* curr2->next = curr3->next; curr3->next = curr2; curr1->next = curr3.    *)
SwapStore1(s) ==
  /\ Step(s, "store1", "store2")
  /\ next' = [next EXCEPT ![curr2[s]] = next[curr3[s]]]
  /\ UNCHANGED <<first, sync, counters, created, locals, status, history>>

SwapStore2(s) ==
  /\ Step(s, "store2", "store3")
  /\ next' = [next EXCEPT ![curr3[s]] = curr2[s]]
  /\ UNCHANGED <<first, sync, counters, created, locals, status, history>>

(* Where the nodes m and n are in the list after they have changed places. *)
Exchanged(m, n) ==
  [k \in 1 .. Len(order) |->
     IF order[k] = m THEN n ELSE IF order[k] = n THEN m ELSE order[k]]

SwapStore3(s) ==
  /\ Step(s, "store3", "load")
  /\ next' = [next EXCEPT ![curr[s]] = curr3[s]]
  /\ order' = Exchanged(curr2[s], curr3[s])
  /\ swaps' = swaps + 1
  /\ calm' = [f \in Finders |-> FALSE]
  /\ UNCHANGED <<first, sync, counters, created, locals, status, before>>

(* tmp = curr1, which keeps its name in curr3 here; curr1 = tmp->next;     *)
(* curr2 = curr1->next.  The load of SWAP_PERMUTATIONS_COUNT++.            *)
SwapLoad(s) ==
  /\ Step(s, "load", "store_count")
  /\ curr3' = [curr3 EXCEPT ![s] = curr[s]]
  /\ curr' = [curr EXCEPT ![s] = next[curr[s]]]
  /\ curr2' = [curr2 EXCEPT ![s] = next[next[curr[s]]]]
  /\ reg' = [reg EXCEPT ![s] = SWAP_PERMUTATIONS_COUNT]
  /\ UNCHANGED <<list, sync, counters, created, status, history>>

SwapStoreCount(s) ==
  /\ Step(s, "store_count", "release1")
  /\ SWAP_PERMUTATIONS_COUNT' = (reg[s] + 1) % Width
  /\ reg' = [reg EXCEPT ![s] = 0]
  /\ UNCHANGED <<list, sync, iterationsCount, compareCount, created>>
  /\ UNCHANGED <<curr, curr2, curr3, status, history>>

SwapRelease1(s) ==
  /\ Step(s, "release1", "release2")
  /\ Release(s, curr3[s])
  /\ curr3' = [curr3 EXCEPT ![s] = NULL]
  /\ UNCHANGED <<list, counters, created, curr, curr2, reg, history>>

SwapRelease2(s) ==
  /\ Step(s, "release2", "release3")
  /\ Release(s, curr[s])
  /\ UNCHANGED <<list, counters, created, locals, history>>

(* Mutant of SwapRelease3: the walk goes on with the last node locked. *)
SwapRelease3Kept(s) ==
  /\ Step(s, "release3", "choose")
  /\ curr2' = [curr2 EXCEPT ![s] = NULL]
  /\ UNCHANGED <<list, sync, counters, created, curr, curr3, reg, status, history>>

SwapRelease3(s) ==
  /\ Step(s, "release3", "choose")
  /\ Release(s, curr2[s])
  /\ curr2' = [curr2 EXCEPT ![s] = NULL]
  /\ UNCHANGED <<list, counters, created, curr, curr3, reg, history>>

(* No swap this time: two nodes are locked and unlocked, curr1 stays.      *)
HoldFirst(s) ==
  /\ Step(s, "hold1", "hold2")
  /\ Acquire(s, curr[s])
  /\ UNCHANGED <<list, counters, created, locals, history>>

HoldLast(s) ==
  /\ Step(s, "hold2", "choose")
  /\ next[curr[s]] = NULL
  /\ Release(s, curr[s])
  /\ UNCHANGED <<list, counters, created, locals, history>>

HoldSecond(s) ==
  /\ Step(s, "hold2", "drop2")
  /\ next[curr[s]] # NULL
  /\ Acquire(s, next[curr[s]])
  /\ UNCHANGED <<list, counters, created, locals, history>>

(* Mutant of DropSecond: the second node stays locked. *)
DropSecondForgotten(s) ==
  /\ Step(s, "drop2", "drop1")
  /\ UNCHANGED <<list, sync, counters, created, locals, status, history>>

DropSecond(s) ==
  /\ Step(s, "drop2", "drop1")
  /\ Release(s, next[curr[s]])
  /\ UNCHANGED <<list, counters, created, locals, history>>

DropFirst(s) ==
  /\ Step(s, "drop1", "choose")
  /\ Release(s, curr[s])
  /\ UNCHANGED <<list, counters, created, locals, history>>

Swapper(s) ==
  \/ SwapCheck(s) \/ SwapCheckNext(s) \/ SwapChoose(s) \/ SwapEnd(s)
  \/ SwapFirst(s) \/ SwapLast(s) \/ SwapSecond(s) \/ SwapTail(s) \/ SwapThird(s)
  \/ SwapStore1(s) \/ SwapStore2(s) \/ SwapStore3(s)
  \/ SwapLoad(s) \/ SwapStoreCount(s)
  \/ SwapRelease1(s) \/ SwapRelease2(s) \/ SwapRelease3(s)
  \/ HoldFirst(s) \/ HoldLast(s) \/ HoldSecond(s) \/ DropSecond(s) \/ DropFirst(s)

-----------------------------------------------------------------------------

(* Mutant of Create: every routine is that of a swapper. *)
CreateSwappers ==
  /\ status = "running"
  /\ created < Len(threads)
  /\ created' = created + 1
  /\ pc' = [t \in Workers |-> IF t # threads[created + 1] THEN pc[t] ELSE "check"]
  /\ UNCHANGED <<kind, list, sync, counters, locals, status, history>>

(* createThreads: one thread after the other; the monitor only prints.     *)
(* main waits in joinThreads for ever, as the monitor never ends.          *)
Create ==
  /\ status = "running"
  /\ created < Len(threads)
  /\ created' = created + 1
  /\ pc' = [t \in Workers |->
       IF t # threads[created + 1] THEN pc[t]
       ELSE IF t \in Finders THEN "start" ELSE "check"]
  /\ UNCHANGED <<kind, list, sync, counters, locals, status, history>>

(* pthread_create fails: main returns, and the process is gone.            *)
CreateFails ==
  /\ status = "running"
  /\ created < Len(threads)
  /\ status' = "no_thread"
  /\ UNCHANGED <<kind, list, sync, counters, created, pc, locals, history>>

Halted == status # "running"

Next == \/ Create \/ CreateFails
        \/ \E f \in Finders : Finder(f)
        \/ \E s \in Swappers : Swapper(s)
        \/ Halted /\ UNCHANGED vars

Spec == Init /\ [][Next]_vars

(* Every thread that can go on does, and no more: a lock need not go to    *)
(* the thread that waits for it, however often it is free.                 *)
FairSpec == /\ Spec
            /\ WF_vars(Create)
            /\ \A f \in Finders : WF_vars(Finder(f))
            /\ \A s \in Swappers : WF_vars(Swapper(s))

-----------------------------------------------------------------------------

FinderPoints == {"unborn", "start", "pass", "first", "second", "compare",
                 "release", "done"}
SwapperPoints ==
  {"unborn", "check", "check_next", "choose", "first", "second", "third",
   "store1", "store2", "store3", "load", "store_count", "release1",
   "release2", "release3", "hold1", "hold2", "drop2", "drop1", "done"}
Pointers == Node \cup {NULL}

(* Every variable has its declared type, every thread is in its routine.   *)
TypeOK ==
  /\ kind \in Kinds
  /\ first \in Pointers
  /\ next \in [Node -> Pointers]
  /\ sync \in [Node -> SUBSET Workers]
  /\ SWAP_PERMUTATIONS_COUNT \in 0 .. Width - 1
  /\ iterationsCount \in [Finders -> 0 .. Width - 1]
  /\ compareCount \in [Finders -> 0 .. Width - 1]
  /\ created \in 0 .. Len(threads)
  /\ pc \in [Workers -> FinderPoints \cup SwapperPoints]
  /\ \A f \in Finders : pc[f] \in FinderPoints
  /\ \A s \in Swappers : pc[s] \in SwapperPoints
  /\ curr \in [Workers -> Pointers]
  /\ curr2 \in [Swappers -> Pointers]
  /\ curr3 \in [Swappers -> Pointers]
  /\ reg \in [Workers -> Nat]
  /\ \A f \in Finders : reg[f] \in {0, 1}
  /\ \A s \in Swappers : reg[s] < Width
  /\ status \in {"running", "lock_error", "no_thread"}
  /\ order \in Seq(Node)
  /\ swaps \in Nat
  /\ calm \in [Finders -> BOOLEAN]
  /\ before \in [Finders -> 0 .. Width - 1]

(* The nodes whose next fields a swapper is about to set or has just set.  *)
InSwap == UNION {{curr2[s], curr3[s]} :
                   s \in {t \in Swappers : pc[t] \in {"store2", "store3"}}}

(* However many swaps overlap, the list holds every node once, in the      *)
(* order the finished swaps have given it; only the two nodes an           *)
(* unfinished swap moves are linked differently.                           *)
ListMatchesOrder ==
  /\ first = IF order = <<>> THEN NULL ELSE order[1]
  /\ \A j, k \in 1 .. Len(order) : order[j] = order[k] => j = k
  /\ \A k \in 1 .. Len(order) :
       order[k] \notin InSwap =>
         next[order[k]] = IF k = Len(order) THEN NULL ELSE order[k + 1]

(* The node whose lock thread t is waiting for. *)
Wanted(t) ==
  IF pc[t] \in {"first", "hold1"} THEN curr[t]
  ELSE IF pc[t] \in {"second", "hold2"} THEN next[curr[t]]
  ELSE IF pc[t] = "third" THEN next[next[curr[t]]]
  ELSE NULL

(* Whom t has to wait for: holders it cannot share the lock with, and, as  *)
(* POSIX allows a read-write lock to prefer writers, a finder also for     *)
(* swappers that wait for the same lock.                                   *)
InTheWay(t) ==
  IF kind = "rw" /\ t \in Finders
  THEN {s \in Swappers : s \in sync[Wanted(t)] \/ Wanted(s) = Wanted(t)}
  ELSE sync[Wanted(t)] \ {t}

(* No threads wait for each other in a circle, although a walk locks up to *)
(* three nodes and the order of the nodes keeps changing, and whether or   *)
(* not a read lock is refused while a writer waits.                        *)
NoCircularWait ==
  ~ \E T \in (SUBSET Workers) \ {{}} :
      \A t \in T : Wanted(t) # NULL /\ InTheWay(t) \cap T # {}

(* No thread locks a lock it has, or unlocks one it has not: the error    *)
(* checks of execMutexlock and execMutexUnlock never abort the program.    *)
LocksUsedRight == status # "lock_error"

(* The locks of a walk can neither bring the threads to a standstill nor   *)
(* the program to an error.                                                *)
LockDiscipline == NoCircularWait /\ LocksUsedRight

(* A pass of countPairsWithCompare during which nobody has swapped adds    *)
(* exactly the number of neighbours that compare.                          *)
UndisturbedPassIsExact ==
  \A f \in Finders :
    pc[f] = "first" /\ curr[f] = NULL /\ calm[f] =>
      compareCount[f] =
        (before[f] + Cardinality({k \in 1 .. Len(order) - 1 :
                                   compare(f, order[k], order[k + 1])})) % Width

(* The next field of a node only changes while a swapper has the node      *)
(* locked, and only the three stores of a swap change one.                 *)
NextIsGuarded ==
  [][\A n \in Node :
       next'[n] # next[n] =>
         \E s \in Swappers : /\ sync[n] = {s}
                            /\ pc[s] \in {"store1", "store2", "store3"}]_vars

Abstract == INSTANCE Shuffle

(* Whatever the threads do to the list amounts to exchanges of neighbours  *)
(* behind the first node.                                                  *)
ImplementsShuffle == Abstract!Spec

(* A finder gets a lock some time that is free for it again and again.     *)
(* None of the three locks promises it, so it is a premise where it is     *)
(* needed: a swapper that stays where it is (list-main-spinlock.c:169-178) *)
(* takes and releases the same locks for ever.                             *)
LocksFair == \A f \in Finders : SF_vars(FinderFirst(f) \/ FinderSecond(f))

(* If so, a thread that holds locks lets go of all of them again.  For a   *)
(* swapper this says that finders can keep it from its first lock only: no *)
(* finder gets past the node it holds, and those ahead of it walk on.      *)
LocksAreReleased ==
  LocksFair =>
    \A t \in Workers :
      (\E n \in Node : t \in sync[n]) ~>
        (status = "no_thread" \/ \A n \in Node : t \notin sync[n])

(* If so, once the order is left alone every finder completes pass after   *)
(* pass.                                                                   *)
PassesComplete ==
  LocksFair /\ <>[][UNCHANGED order]_vars /\ [](status = "running") =>
    \A f \in Finders : Len(order) >= 2 => []<>(pc[f] = "pass")

(* What a swapper prints before it gives up (list-main-mutex.c:119): there *)
(* are not enough elements in the storage to swap.                         *)
GivesUpOnlyOnShortList ==
  \A s \in Swappers : pc[s] = "done" => Len(order) < 3
=============================================================================
