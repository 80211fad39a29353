--------------------------- MODULE SwapListProofs ---------------------------
(***************************************************************************)
(* The safety of the list with a lock in every node, for each of the three *)
(* programs, every list main may build, every array of threads and every   *)
(* width of the counters.                                                  *)
(***************************************************************************)
EXTENDS SwapList, FiniteSetTheorems, SequenceTheorems, WellFoundedInduction, TLAPS

(* The node behind the k-th in list order, and whether n is in the list.   *)
After(k)  == IF k = Len(order) THEN NULL ELSE order[k + 1]
OnList(n) == \E k \in 1 .. Len(order) : order[k] = n

(* Where l, m and n are neighbours in this order. *)
InRow(k, l, m, n) ==
  k \in 1 .. Len(order) - 2 /\ order[k] = l /\ order[k + 1] = m /\ order[k + 2] = n

(* The nodes a thread has locked, as its control point tells. *)
Held(t) ==
  IF pc[t] \in {"second", "hold2", "drop1", "release"} THEN {curr[t]}
  ELSE IF pc[t] \in {"compare", "third", "drop2"} THEN {curr[t], next[curr[t]]}
  ELSE IF pc[t] \in {"store1", "store2", "store3", "load", "store_count", "release1"}
       THEN {curr[t], curr2[t], curr3[t]}
  ELSE IF pc[t] = "release2" THEN {curr[t], curr2[t]}
  ELSE IF pc[t] = "release3" THEN {curr2[t]}
  ELSE {}

(* Who holds a lock is told by the control points alone, and a lock a      *)
(* swapper holds is held by nobody else.                                   *)
LockInv ==
  /\ \A t \in Workers, n \in Node : t \in sync[n] <=> n \in Held(t)
  /\ \A s \in Swappers, n \in Node : s \in sync[n] => sync[n] = {s}

(* Where a walk is: at a node of the list, with those behind it that the   *)
(* control point speaks of.                                                *)
WalkInv(t) ==
  /\ curr[t] # NULL => OnList(curr[t])
  /\ pc[t] \in {"second", "compare", "release", "third", "hold1", "hold2", "drop2", "drop1"}
       => curr[t] # NULL
  /\ t \in Swappers /\ pc[t] = "first" => curr[t] # NULL
  /\ pc[t] \in {"compare", "third", "drop2"} => next[curr[t]] # NULL

(* The three nodes of a swap are neighbours until the last store gives the *)
(* two behind the first a new order; the stores done so far have set next. *)
SwapInv(s) ==
  /\ pc[s] \in {"store1", "store2", "store3"} =>
       \E k \in 1 .. Len(order) :
         /\ InRow(k, curr[s], curr2[s], curr3[s])
         /\ pc[s] # "store1" => next[curr2[s]] = After(k + 2)
         /\ pc[s] = "store2" => next[curr3[s]] = After(k + 2)
         /\ pc[s] = "store3" => next[curr3[s]] = curr2[s]
  /\ pc[s] = "load" =>
       \E k \in 1 .. Len(order) : InRow(k, curr[s], curr3[s], curr2[s])
  /\ pc[s] \in {"store_count", "release1"} =>
       \E k \in 1 .. Len(order) : InRow(k, curr3[s], curr[s], curr2[s])
  /\ pc[s] = "release2" =>
       \E k \in 1 .. Len(order) - 1 : order[k] = curr[s] /\ order[k + 1] = curr2[s]
  /\ pc[s] = "release3" => curr[s] # NULL /\ OnList(curr2[s])

(* Every walk and every swap is where its control point says.              *)
PlaceInv == \A t \in Workers : WalkInv(t) /\ (t \in Swappers => SwapInv(t))

(* A thread main has not come to yet does not run. *)
BirthInv ==
  \A t \in Workers :
    pc[t] # "unborn" => \E k \in 1 .. created : threads[k] = t

(* The strengthening of the properties below.                              *)
Inv == /\ TypeOK /\ ListMatchesOrder /\ LockInv /\ PlaceInv /\ BirthInv
       /\ LocksUsedRight

-----------------------------------------------------------------------------
(* What the order says of the next fields. *)

LEMMA OrderType ==
  ASSUME TypeOK
  PROVE  /\ Len(order) \in Nat
         /\ \A k \in 1 .. Len(order) : order[k] \in Node /\ order[k] # NULL
         /\ \A k \in 1 .. Len(order) : After(k) \in Node \cup {NULL}
         /\ \A k \in 1 .. Len(order) - 1 : After(k) = order[k + 1]
BY SwapListAssumption, LenProperties, ElementOfSeq DEF TypeOK, After

LEMMA OnListType ==
  ASSUME TypeOK, NEW n, OnList(n)
  PROVE  n \in Node /\ n # NULL
BY OrderType DEF OnList

(* Only the swapper that has a node locked is about to move it. *)
LEMMA InSwapHeld ==
  ASSUME TypeOK, LockInv, PlaceInv, NEW t \in Workers, NEW n \in Held(t),
         n \in Node, pc[t] \notin {"store2", "store3"}
  PROVE  n \notin InSwap
<1> SUFFICES ASSUME NEW s \in Swappers, pc[s] \in {"store2", "store3"},
                    n \in {curr2[s], curr3[s]}
             PROVE  FALSE
  BY DEF InSwap
<1>1. s \in Workers /\ n \in Held(s)
  BY DEF Held, Workers
<1>2. t \in sync[n] /\ s \in sync[n]
  BY <1>1 DEF LockInv
<1> QED
  BY <1>2 DEF LockInv

(* Who has the k-th node locked and is not between the stores of a swap    *)
(* finds its successor in the next field.                                  *)
LEMMA HeldNext ==
  ASSUME TypeOK, LockInv, ListMatchesOrder, PlaceInv, NEW t \in Workers,
         NEW k \in 1 .. Len(order), order[k] \in Held(t),
         pc[t] \notin {"store2", "store3"}
  PROVE  next[order[k]] = After(k)
BY OrderType, InSwapHeld DEF ListMatchesOrder, After

LEMMA SuccessorOnList ==
  ASSUME TypeOK, LockInv, ListMatchesOrder, PlaceInv, NEW t \in Workers,
         NEW n \in Held(t), OnList(n), pc[t] \notin {"store2", "store3"},
         next[n] # NULL
  PROVE  /\ OnList(next[n]) /\ next[n] \in Node /\ n \in Node /\ next[n] # n
         /\ \E k \in 1 .. Len(order) - 1 : order[k] = n /\ order[k + 1] = next[n]
<1>1. PICK k \in 1 .. Len(order) : order[k] = n
  BY DEF OnList
<1>2. next[n] = After(k)
  BY <1>1, HeldNext
<1>3. k # Len(order)
  BY <1>2 DEF After
<1>4. k \in 1 .. Len(order) - 1 /\ k + 1 \in 1 .. Len(order)
  BY <1>3, OrderType
<1>5. next[n] = order[k + 1]
  BY <1>2, <1>4, OrderType
<1>6. order[k + 1] # order[k]
  BY <1>4 DEF ListMatchesOrder
<1> QED
  BY <1>1, <1>4, <1>5, <1>6, OrderType DEF OnList

-----------------------------------------------------------------------------
(* Locking and unlocking. *)

LEMMA AcquireDef ==
  ASSUME TypeOK, NEW t \in Workers, NEW n \in Node, Acquire(t, n)
  PROVE  /\ sync' = [sync EXCEPT ![n] = @ \cup {t}]
         /\ sync' \in [Node -> SUBSET Workers]
         /\ status' = IF t \in sync[n] THEN "lock_error" ELSE status
         /\ t \in Swappers => sync[n] \ {t} = {}
         /\ sync[n] \cap Swappers \subseteq {t}
<1> USE DEF Acquire, execMutexlock, createSpinlock, execRWlockWRlock,
            execRWlockRDlock, Hold
<1>1. /\ sync' = [sync EXCEPT ![n] = @ \cup {t}]
      /\ status' = IF t \in sync[n] THEN "lock_error" ELSE status
  OBVIOUS
<1>2. sync' \in [Node -> SUBSET Workers]
  BY <1>1 DEF TypeOK
<1>3. Finders \cap Swappers = {}
  BY SwapListAssumption
<1>4. t \in Swappers => sync[n] \ {t} = {}
  BY <1>3
<1>5. sync[n] \ {t} \subseteq Finders
  OBVIOUS
<1> QED
  BY <1>1, <1>2, <1>3, <1>4, <1>5

LEMMA ReleaseDef ==
  ASSUME TypeOK, NEW t \in Workers, NEW n \in Node, Release(t, n)
  PROVE  /\ sync' = [sync EXCEPT ![n] = @ \ {t}]
         /\ sync' \in [Node -> SUBSET Workers]
         /\ status' = IF t \notin sync[n] THEN "lock_error" ELSE status
BY DEF Release, execMutexUnlock, destroySpinlock, execRWlockUnlock, Drop,
       TypeOK, Workers

LEMMA LockTaken ==
  ASSUME TypeOK, LockInv, NEW t \in Workers, NEW n \in Node, Acquire(t, n),
         n \notin Held(t), Held(t)' = Held(t) \cup {n},
         \A u \in Workers \ {t} : Held(u)' = Held(u)
  PROVE  LockInv' /\ status' = status
<1>1. /\ sync' = [sync EXCEPT ![n] = @ \cup {t}]
      /\ t \in Swappers => sync[n] \ {t} = {}
      /\ sync[n] \cap Swappers \subseteq {t}
      /\ status' = IF t \in sync[n] THEN "lock_error" ELSE status
  BY AcquireDef
<1>2. t \notin sync[n]
  BY DEF LockInv
<1>3. sync[n] \in SUBSET Workers
  BY DEF TypeOK
<1>4. \A u \in Workers, m \in Node : u \in sync'[m] <=> u \in sync[m] \/ (u = t /\ m = n)
  BY <1>1 DEF TypeOK
<1>5. \A u \in Workers, m \in Node : u \in sync'[m] <=> m \in Held(u)'
  BY <1>4 DEF LockInv
<1>6. ASSUME NEW s \in Swappers, NEW m \in Node, s \in sync'[m]
      PROVE  sync'[m] = {s}
  <2>1. CASE m # n
    BY <1>1, <1>6, <2>1 DEF LockInv, TypeOK
  <2>2. CASE m = n
    BY <1>1, <1>2, <1>6, <2>2 DEF TypeOK
  <2> QED BY <2>1, <2>2
<1> QED
  BY <1>1, <1>2, <1>5, <1>6 DEF LockInv

LEMMA LockDropped ==
  ASSUME TypeOK, LockInv, NEW t \in Workers, NEW n \in Node, Release(t, n),
         n \in Held(t), Held(t)' = Held(t) \ {n},
         \A u \in Workers \ {t} : Held(u)' = Held(u)
  PROVE  LockInv' /\ status' = status
<1>1. /\ sync' = [sync EXCEPT ![n] = @ \ {t}]
      /\ status' = IF t \notin sync[n] THEN "lock_error" ELSE status
  BY ReleaseDef
<1>2. t \in sync[n]
  BY DEF LockInv
<1>3. \A u \in Workers, m \in Node : u \in sync'[m] <=> u \in sync[m] /\ ~ (u = t /\ m = n)
  BY <1>1 DEF TypeOK
<1>4. \A u \in Workers, m \in Node : u \in sync'[m] <=> m \in Held(u)'
  BY <1>3 DEF LockInv
<1>5. ASSUME NEW s \in Swappers, NEW m \in Node, s \in sync'[m]
      PROVE  sync'[m] = {s}
  <2>1. CASE m # n
    BY <1>1, <1>5, <2>1 DEF LockInv, TypeOK
  <2>2. CASE m = n
    BY <1>1, <1>5, <2>2 DEF LockInv, TypeOK, Workers
  <2> QED BY <2>1, <2>2
<1> QED
  BY <1>1, <1>2, <1>4, <1>5 DEF LockInv

LEMMA LockKept ==
  ASSUME LockInv, UNCHANGED sync, \A u \in Workers : Held(u)' = Held(u)
  PROVE  LockInv'
BY DEF LockInv

-----------------------------------------------------------------------------
(* Steps that leave the list as it is. *)

(* Only thread t moves, and it stores nothing into the list. *)
Quiet(t) ==
  /\ UNCHANGED <<first, next, order>>
  /\ \A u \in Workers \ {t} : pc'[u] = pc[u] /\ curr'[u] = curr[u]
  /\ \A s \in Swappers \ {t} : curr2'[s] = curr2[s] /\ curr3'[s] = curr3[s]

LEMMA OthersKept ==
  ASSUME TypeOK, PlaceInv, NEW t \in Workers, Quiet(t), NEW u \in Workers \ {t}
  PROVE  Held(u)' = Held(u) /\ WalkInv(u)' /\ (u \in Swappers => SwapInv(u)')
<1> USE DEF Quiet
<1>1. WalkInv(u)'
  BY DEF PlaceInv, WalkInv, OnList
<1>2. ASSUME u \in Swappers PROVE SwapInv(u)' /\ Held(u)' = Held(u)
  <2>1. /\ pc'[u] = pc[u] /\ curr'[u] = curr[u] /\ curr2'[u] = curr2[u]
        /\ curr3'[u] = curr3[u] /\ next' = next /\ order' = order
    BY <1>2
  <2>2. SwapInv(u)
    BY <1>2 DEF PlaceInv
  <2>3. SwapInv(u)'
    BY <2>1, <2>2 DEF SwapInv, OnList, InRow, After
  <2>4. Held(u)' = Held(u)
    BY <2>1 DEF Held
  <2> QED BY <2>3, <2>4
<1>3. u \notin Swappers => pc[u] \in FinderPoints
  BY DEF TypeOK, Workers
<1>4. u \notin Swappers => Held(u)' = Held(u)
  BY <1>3 DEF Held, FinderPoints
<1> QED
  BY <1>1, <1>2, <1>4

LEMMA OrderKept ==
  ASSUME TypeOK, ListMatchesOrder, NEW t \in Workers, Quiet(t),
         pc[t] \notin {"store2", "store3"}, pc'[t] \notin {"store2", "store3"}
  PROVE  ListMatchesOrder'
<1>1. \A s \in Swappers : pc[s] \in {"store2", "store3"} <=> pc'[s] \in {"store2", "store3"}
  BY DEF Quiet, Workers
<1>2. \A s \in Swappers : pc[s] \in {"store2", "store3"} =>
                            curr2'[s] = curr2[s] /\ curr3'[s] = curr3[s]
  BY DEF Quiet, Workers
<1>3. InSwap' = InSwap
  BY <1>1, <1>2 DEF InSwap
<1> QED
  BY <1>3 DEF ListMatchesOrder, Quiet

LEMMA BirthKept ==
  ASSUME BirthInv, NEW t \in Workers, pc[t] # "unborn", UNCHANGED created,
         \A u \in Workers \ {t} : pc'[u] = pc[u]
  PROVE  BirthInv'
BY DEF BirthInv

(* Such a step of t keeps the invariant when t is left at a proper place   *)
(* and the locks are those of its new control point.                       *)
LEMMA QuietStep ==
  ASSUME Inv, NEW t \in Workers, Quiet(t), UNCHANGED created,
         pc[t] \notin {"unborn", "store2", "store3"},
         pc'[t] \notin {"store2", "store3"},
         TypeOK', WalkInv(t)', t \in Swappers => SwapInv(t)',
         \/ UNCHANGED <<sync, status>> /\ Held(t)' = Held(t)
         \/ \E n \in Node : /\ Acquire(t, n)
                            /\ n \notin Held(t) /\ Held(t)' = Held(t) \cup {n}
         \/ \E n \in Node : /\ Release(t, n)
                            /\ n \in Held(t) /\ Held(t)' = Held(t) \ {n}
  PROVE  Inv'
<1>1. \A u \in Workers \ {t} :
         Held(u)' = Held(u) /\ WalkInv(u)' /\ (u \in Swappers => SwapInv(u)')
  BY OthersKept DEF Inv
<1>2. PlaceInv'
  BY <1>1 DEF PlaceInv
<1>3. ListMatchesOrder' /\ BirthInv'
  <2>1. ListMatchesOrder'
    BY OrderKept DEF Inv
  <2>2. \A u \in Workers \ {t} : pc'[u] = pc[u]
    BY DEF Quiet
  <2>3. BirthInv'
    BY <2>2, BirthKept DEF Inv
  <2> QED
    BY <2>1, <2>3
<1>4. LockInv' /\ LocksUsedRight'
  <2>1. CASE UNCHANGED <<sync, status>> /\ Held(t)' = Held(t)
    BY <1>1, <2>1, LockKept DEF Inv, LocksUsedRight
  <2>2. ASSUME NEW n \in Node, Acquire(t, n), n \notin Held(t),
               Held(t)' = Held(t) \cup {n}
        PROVE  LockInv' /\ status' = status
    BY <1>1, <2>2, LockTaken DEF Inv
  <2>3. ASSUME NEW n \in Node, Release(t, n), n \in Held(t),
               Held(t)' = Held(t) \ {n}
        PROVE  LockInv' /\ status' = status
    BY <1>1, <2>3, LockDropped DEF Inv
  <2> QED
    BY <2>1, <2>2, <2>3 DEF Inv, LocksUsedRight
<1> QED
  BY <1>2, <1>3, <1>4 DEF Inv

-----------------------------------------------------------------------------
(* Finders.  A finder only reads the list. *)

LEMMA FirstOnList ==
  ASSUME TypeOK, ListMatchesOrder, first # NULL
  PROVE  OnList(first)
BY OrderType, EmptySeq DEF ListMatchesOrder, OnList, TypeOK

LEMMA FinderKeepsInv ==
  ASSUME Inv, NEW f \in Finders, Finder(f)
  PROVE  Inv'
<1> USE DEF Step, list, counters, locals, history
<1>0. f \in Workers /\ f \notin Swappers /\ pc[f] \in FinderPoints /\ TypeOK
  BY SwapListAssumption DEF Workers, Inv, TypeOK
<1>1. WalkInv(f) /\ LockInv /\ ListMatchesOrder /\ PlaceInv
  BY <1>0 DEF Inv, PlaceInv
<1>2. CASE FinderStart(f)
  <2>1. Quiet(f) /\ pc'[f] \in {"pass", "done"} /\ pc[f] = "start"
    BY <1>0, <1>2 DEF FinderStart, Quiet, TypeOK
  <2>2. TypeOK'
    BY <1>0, <1>2 DEF FinderStart, TypeOK, FinderPoints
  <2>3. WalkInv(f)' /\ Held(f)' = Held(f)
    BY <1>0, <1>1, <1>2, <2>1 DEF FinderStart, WalkInv, OnList, Held
  <2> QED
    BY <1>0, <1>2, <2>1, <2>2, <2>3, QuietStep DEF FinderStart
<1>3. CASE FinderPass(f)
  <2>1. Quiet(f) /\ pc'[f] = "first" /\ pc[f] = "pass" /\ curr'[f] = first
    BY <1>0, <1>3 DEF FinderPass, Quiet, TypeOK, Workers
  <2>2. TypeOK'
    BY <1>0, <1>3 DEF FinderPass, TypeOK, FinderPoints
  <2>3. WalkInv(f)'
    BY <1>0, <1>1, <2>1, FirstOnList DEF WalkInv, OnList, Quiet
  <2>4. Held(f)' = Held(f)
    BY <2>1 DEF Held
  <2> QED
    BY <1>0, <1>3, <2>1, <2>2, <2>3, <2>4, QuietStep DEF FinderPass
<1>4. CASE FinderEnd(f)
  <2>1. Quiet(f) /\ pc'[f] = "pass" /\ pc[f] = "first"
    BY <1>0, <1>4 DEF FinderEnd, Quiet, TypeOK
  <2>2. TypeOK'
    <3>1. (iterationsCount[f] + 1) % Width \in 0 .. Width - 1
      BY <1>0, SwapListAssumption DEF TypeOK
    <3>2. iterationsCount' \in [Finders -> 0 .. Width - 1]
      BY <1>0, <1>4, <3>1 DEF FinderEnd, TypeOK
    <3>3. pc' = [pc EXCEPT ![f] = "pass"]
      BY <1>4 DEF FinderEnd
    <3> QED
      BY SMTT(20), <1>0, <1>4, <3>2, <3>3 DEF FinderEnd, TypeOK, FinderPoints
  <2>3. WalkInv(f)' /\ Held(f)' = Held(f)
    BY <1>0, <1>1, <1>4, <2>1 DEF FinderEnd, WalkInv, OnList, Held
  <2> QED
    BY <1>0, <1>4, <2>1, <2>2, <2>3, QuietStep DEF FinderEnd
<1>5. CASE FinderFirst(f)
  <2>1. /\ Quiet(f) /\ pc'[f] = "second" /\ pc[f] = "first"
        /\ curr'[f] = curr[f] /\ curr[f] \in Node
    BY <1>0, <1>5 DEF FinderFirst, Quiet, TypeOK, Pointers
  <2>2. Acquire(f, curr[f])
    BY <1>5 DEF FinderFirst
  <2>3. TypeOK'
    BY SMTT(20), <1>0, <1>5, <2>1, <2>2, AcquireDef
    DEF FinderFirst, TypeOK, FinderPoints
  <2>4. WalkInv(f)'
    BY <1>0, <1>1, <1>5, <2>1 DEF FinderFirst, WalkInv, OnList
  <2>5. Held(f) = {} /\ Held(f)' = {curr[f]}
    BY <2>1 DEF Held
  <2> QED
    BY <1>0, <1>5, <2>1, <2>2, <2>3, <2>4, <2>5, QuietStep DEF FinderFirst
<1>6. CASE FinderSecond(f)
  <2>1. /\ Quiet(f) /\ pc'[f] = "compare" /\ pc[f] = "second"
        /\ curr'[f] = curr[f] /\ next' = next
        /\ next[curr[f]] # NULL
    BY <1>0, <1>6 DEF FinderSecond, Quiet, TypeOK
  <2>2. Held(f) = {curr[f]} /\ Held(f)' = {curr[f], next[curr[f]]}
    BY <2>1 DEF Held
  <2>3. OnList(curr[f])
    BY <1>1, <2>1 DEF WalkInv
  <2>4. /\ next[curr[f]] \in Node /\ OnList(next[curr[f]])
        /\ next[curr[f]] # curr[f]
    BY <1>0, <1>1, <2>1, <2>2, <2>3, SuccessorOnList
  <2>5. Acquire(f, next[curr[f]])
    BY <1>6 DEF FinderSecond
  <2>6. TypeOK'
    BY SMTT(20), <1>0, <1>6, <2>4, <2>5, AcquireDef
    DEF FinderSecond, TypeOK, FinderPoints
  <2>7. WalkInv(f)'
    BY <1>0, <1>1, <1>6, <2>1, <2>3 DEF FinderSecond, WalkInv, OnList
  <2> QED
    BY <1>0, <1>6, <2>1, <2>2, <2>4, <2>5, <2>6, <2>7, QuietStep DEF FinderSecond
<1>7. CASE FinderLast(f)
  <2>1. /\ Quiet(f) /\ pc'[f] = "first" /\ pc[f] = "second"
        /\ curr'[f] = NULL
    BY <1>0, <1>7 DEF FinderLast, Quiet, TypeOK, Workers
  <2>2. curr[f] \in Node /\ Held(f) = {curr[f]} /\ Held(f)' = {}
    BY <1>0, <1>1, <2>1, OnListType DEF WalkInv, Held
  <2>3. Release(f, curr[f])
    BY <1>7 DEF FinderLast
  <2>4. TypeOK'
    BY SMTT(20), <1>0, <1>7, <2>2, <2>3, ReleaseDef
    DEF FinderLast, TypeOK, FinderPoints, Pointers
  <2>5. WalkInv(f)'
    BY <1>0, <2>1 DEF WalkInv
  <2> QED
    BY <1>0, <1>7, <2>1, <2>2, <2>3, <2>4, <2>5, QuietStep DEF FinderLast
<1>8. CASE FinderCompare(f)
  <2>1. /\ Quiet(f) /\ pc'[f] = "release" /\ pc[f] = "compare"
        /\ curr'[f] = next[curr[f]]
    BY <1>0, <1>8 DEF FinderCompare, Quiet, TypeOK, Workers
  <2>2. /\ OnList(curr[f]) /\ next[curr[f]] # NULL
        /\ Held(f) = {curr[f], next[curr[f]]} /\ Held(f)' = {next[curr[f]]}
    BY <1>1, <2>1 DEF WalkInv, Held
  <2>3. /\ next[curr[f]] \in Node /\ OnList(next[curr[f]])
        /\ curr[f] \in Node /\ next[curr[f]] # curr[f]
    BY <1>0, <1>1, <2>1, <2>2, SuccessorOnList
  <2>4. Release(f, curr[f])
    BY <1>8 DEF FinderCompare
  <2>5. TypeOK'
    <3>1. /\ sync' \in [Node -> SUBSET Workers]
          /\ status' \in {"running", "lock_error", "no_thread"}
      BY <1>0, <2>3, <2>4, ReleaseDef DEF TypeOK
    <3>2. PICK b \in {0, 1} : reg' = [reg EXCEPT ![f] = b]
      BY <1>8 DEF FinderCompare
    <3>3. /\ reg' \in [Workers -> Nat]
          /\ \A g \in Finders : reg'[g] \in {0, 1}
          /\ \A s \in Swappers : reg'[s] < Width
      BY <1>0, <3>2 DEF TypeOK, Workers
    <3> QED
      BY <1>0, <1>8, <2>3, <3>1, <3>3
      DEF FinderCompare, TypeOK, FinderPoints, Pointers
  <2>6. WalkInv(f)'
    BY <1>0, <2>1, <2>2, <2>3 DEF WalkInv, OnList, Quiet
  <2> QED
    BY <1>0, <1>8, <2>1, <2>2, <2>3, <2>4, <2>5, <2>6, QuietStep DEF FinderCompare
<1>9. CASE FinderRelease(f)
  <2>1. /\ Quiet(f) /\ pc'[f] = "first" /\ pc[f] = "release"
        /\ curr'[f] = curr[f]
    BY <1>0, <1>9 DEF FinderRelease, Quiet, TypeOK
  <2>2. OnList(curr[f]) /\ curr[f] \in Node /\ Held(f) = {curr[f]} /\ Held(f)' = {}
    BY <1>0, <1>1, <2>1, OnListType DEF WalkInv, Held
  <2>3. Release(f, curr[f])
    BY <1>9 DEF FinderRelease
  <2>4. TypeOK'
    <3>1. /\ sync' \in [Node -> SUBSET Workers]
          /\ status' \in {"running", "lock_error", "no_thread"}
      BY <1>0, <2>2, <2>3, ReleaseDef DEF TypeOK
    <3>2. (compareCount[f] + reg[f]) % Width \in 0 .. Width - 1
      <4>1. compareCount[f] + reg[f] \in Nat
        BY <1>0, SwapListAssumption DEF TypeOK
      <4> QED
        BY <4>1, SwapListAssumption
    <3>3. compareCount' \in [Finders -> 0 .. Width - 1]
      BY <1>0, <1>9, <3>2 DEF FinderRelease, TypeOK
    <3>4. /\ reg' \in [Workers -> Nat]
          /\ \A g \in Finders : reg'[g] \in {0, 1}
          /\ \A s \in Swappers : reg'[s] < Width
      BY <1>0, <1>9 DEF FinderRelease, TypeOK, Workers
    <3> QED
      BY SMTT(20), <1>0, <1>9, <3>1, <3>3, <3>4
      DEF FinderRelease, TypeOK, FinderPoints
  <2>5. WalkInv(f)'
    BY <1>0, <2>1, <2>2 DEF WalkInv, OnList, Quiet
  <2> QED
    BY <1>0, <1>9, <2>1, <2>2, <2>3, <2>4, <2>5, QuietStep DEF FinderRelease
<1> QED
  BY <1>2, <1>3, <1>4, <1>5, <1>6, <1>7, <1>8, <1>9 DEF Finder

-----------------------------------------------------------------------------
(* Swappers that walk: the steps of a swapper that are no part of a swap.  *)

LEMMA WalkKeepsInv ==
  ASSUME Inv, NEW s \in Swappers,
         \/ SwapCheck(s) \/ SwapCheckNext(s) \/ SwapChoose(s) \/ SwapEnd(s)
         \/ SwapFirst(s) \/ SwapLast(s) \/ SwapSecond(s) \/ SwapTail(s)
         \/ HoldFirst(s) \/ HoldLast(s) \/ HoldSecond(s) \/ DropSecond(s) \/ DropFirst(s)
  PROVE  Inv'
<1> USE DEF Step, list, counters, locals, history
<1>0. s \in Workers /\ s \notin Finders /\ pc[s] \in SwapperPoints /\ TypeOK
  BY SwapListAssumption DEF Workers, Inv, TypeOK
<1>1. WalkInv(s) /\ LockInv /\ ListMatchesOrder /\ PlaceInv
  BY <1>0 DEF Inv, PlaceInv
<1>2. CASE SwapCheck(s)
  <2>1. Quiet(s) /\ pc'[s] \in {"check_next", "done"} /\ pc[s] = "check"
    BY <1>0, <1>2 DEF SwapCheck, Quiet, TypeOK
  <2>2. TypeOK'
    BY <1>0, <1>2 DEF SwapCheck, NoPair, TypeOK, SwapperPoints, Pointers
  <2>3. WalkInv(s)' /\ SwapInv(s)' /\ Held(s)' = Held(s)
    BY <1>0, <1>1, <1>2, <2>1 DEF SwapCheck, WalkInv, SwapInv, OnList, Held
  <2> QED
    BY <1>0, <1>2, <2>1, <2>2, <2>3, QuietStep DEF SwapCheck
<1>3. CASE SwapCheckNext(s)
  <2>1. /\ Quiet(s) /\ pc'[s] \in {"choose", "done"} /\ pc[s] = "check_next"
        /\ curr'[s] \in {curr[s], first}
    BY <1>0, <1>3 DEF SwapCheckNext, Quiet, TypeOK, Workers
  <2>2. TypeOK'
    <3>0. PICK to \in {"choose", "done"} : pc' = [pc EXCEPT ![s] = to]
      BY <1>3 DEF SwapCheckNext
    <3>1. /\ curr' \in [Workers -> Pointers] /\ status' = status /\ kind' = kind
          /\ UNCHANGED <<list, sync, counters, created, curr3, reg, history>>
      BY <1>0, <1>3 DEF SwapCheckNext, TypeOK
    <3>2. curr2' \in [Swappers -> Pointers]
      BY <1>0, <1>3 DEF SwapCheckNext, TypeOK, Pointers
    <3>3. /\ pc' \in [Workers -> FinderPoints \cup SwapperPoints]
          /\ \A f \in Finders : pc'[f] \in FinderPoints
          /\ \A u \in Swappers : pc'[u] \in SwapperPoints
      BY <1>0, <3>0 DEF TypeOK, SwapperPoints, Workers
    <3> QED
      BY <1>0, <3>1, <3>2, <3>3 DEF TypeOK
  <2>3. WalkInv(s)'
    BY <1>0, <1>1, <2>1, FirstOnList DEF WalkInv, OnList, Quiet
  <2>4. SwapInv(s)' /\ Held(s)' = Held(s)
    BY <2>1 DEF SwapInv, Held
  <2> QED
    BY <1>0, <1>3, <2>1, <2>2, <2>3, <2>4, QuietStep DEF SwapCheckNext
<1>4. CASE SwapChoose(s)
  <2>1. /\ Quiet(s) /\ pc'[s] \in {"first", "hold1"} /\ pc[s] = "choose"
        /\ curr'[s] = curr[s] /\ curr[s] # NULL
    BY <1>0, <1>4 DEF SwapChoose, Quiet, TypeOK
  <2>2. TypeOK'
    <3>1. PICK to \in {"first", "hold1"} : pc' = [pc EXCEPT ![s] = to] /\ kind' = kind
      BY <1>4 DEF SwapChoose
    <3>2. /\ pc' \in [Workers -> FinderPoints \cup SwapperPoints]
          /\ \A f \in Finders : pc'[f] \in FinderPoints
          /\ \A u \in Swappers : pc'[u] \in SwapperPoints
      BY <1>0, <3>1 DEF TypeOK, SwapperPoints, Workers
    <3> QED
      BY <1>0, <1>4, <3>1, <3>2 DEF SwapChoose, TypeOK
  <2>3. WalkInv(s)' /\ SwapInv(s)' /\ Held(s)' = Held(s)
    BY <1>0, <1>1, <2>1 DEF WalkInv, SwapInv, OnList, Held, Quiet
  <2> QED
    BY <1>0, <1>4, <2>1, <2>2, <2>3, QuietStep DEF SwapChoose
<1>5. CASE SwapEnd(s)
  <2>1. Quiet(s) /\ pc'[s] = "check" /\ pc[s] = "choose" /\ curr'[s] = curr[s]
    BY <1>0, <1>5 DEF SwapEnd, Quiet, TypeOK
  <2>2. TypeOK'
    BY <1>0, <1>5 DEF SwapEnd, TypeOK, SwapperPoints
  <2>3. WalkInv(s)' /\ SwapInv(s)' /\ Held(s)' = Held(s)
    BY <1>0, <1>1, <2>1 DEF WalkInv, SwapInv, OnList, Held, Quiet
  <2> QED
    BY <1>0, <1>5, <2>1, <2>2, <2>3, QuietStep DEF SwapEnd
<1>6. CASE SwapFirst(s)
  <2>1. /\ Quiet(s) /\ pc'[s] = "second" /\ pc[s] = "first" /\ curr'[s] = curr[s]
    BY <1>0, <1>6 DEF SwapFirst, Quiet, TypeOK
  <2>2. /\ OnList(curr[s]) /\ curr[s] \in Node
        /\ Held(s) = {} /\ Held(s)' = {curr[s]}
    BY <1>0, <1>1, <2>1, OnListType DEF WalkInv, Held
  <2>3. Acquire(s, curr[s])
    BY <1>6 DEF SwapFirst
  <2>4. TypeOK'
    BY <1>0, <1>6, <2>2, <2>3, AcquireDef DEF SwapFirst, TypeOK, SwapperPoints
  <2>5. WalkInv(s)' /\ SwapInv(s)'
    BY <1>0, <1>1, <2>1, <2>2, OnListType DEF WalkInv, SwapInv, OnList, Quiet
  <2> QED
    BY <1>0, <1>6, <2>1, <2>2, <2>3, <2>4, <2>5, QuietStep DEF SwapFirst
<1>7. CASE SwapLast(s)
  <2>1. /\ Quiet(s) /\ pc'[s] = "choose" /\ pc[s] = "second" /\ curr'[s] = NULL
    BY <1>0, <1>7 DEF SwapLast, Quiet, TypeOK, Workers
  <2>2. /\ OnList(curr[s]) /\ curr[s] \in Node
        /\ Held(s) = {curr[s]} /\ Held(s)' = {}
    BY <1>0, <1>1, <2>1, OnListType DEF WalkInv, Held
  <2>3. Release(s, curr[s])
    BY <1>7 DEF SwapLast
  <2>4. TypeOK'
    BY <1>0, <1>7, <2>2, <2>3, ReleaseDef DEF SwapLast, TypeOK, SwapperPoints, Pointers
  <2>5. WalkInv(s)' /\ SwapInv(s)'
    BY <1>0, <1>1, <2>1, <2>2 DEF WalkInv, SwapInv, OnList, Quiet
  <2> QED
    BY <1>0, <1>7, <2>1, <2>2, <2>3, <2>4, <2>5, QuietStep DEF SwapLast
<1>8. CASE SwapSecond(s)
  <2>1. /\ Quiet(s) /\ pc'[s] = "third" /\ pc[s] = "second" /\ curr'[s] = curr[s]
        /\ next' = next /\ next[curr[s]] # NULL
    BY <1>0, <1>8 DEF SwapSecond, Quiet, TypeOK
  <2>2. /\ OnList(curr[s]) /\ curr[s] # NULL
        /\ Held(s) = {curr[s]} /\ Held(s)' = {curr[s], next[curr[s]]}
    BY <1>1, <2>1 DEF WalkInv, Held
  <2>3. next[curr[s]] \in Node /\ next[curr[s]] # curr[s]
    BY <1>0, <1>1, <2>1, <2>2, SuccessorOnList
  <2>4. Acquire(s, next[curr[s]])
    BY <1>8 DEF SwapSecond
  <2>5. TypeOK'
    BY <1>0, <1>8, <2>3, <2>4, AcquireDef DEF SwapSecond, TypeOK, SwapperPoints
  <2>6. WalkInv(s)' /\ SwapInv(s)'
    BY <1>0, <1>1, <2>1, <2>2 DEF WalkInv, SwapInv, OnList, Quiet
  <2> QED
    BY <1>0, <1>8, <2>1, <2>2, <2>3, <2>4, <2>5, <2>6, QuietStep DEF SwapSecond
<1>9. CASE SwapTail(s)
  <2>1. /\ Quiet(s) /\ pc'[s] = "drop1" /\ pc[s] = "third"
        /\ curr'[s] = next[curr[s]] /\ next' = next
    BY <1>0, <1>9 DEF SwapTail, Quiet, TypeOK, Workers
  <2>2. /\ OnList(curr[s]) /\ curr[s] # NULL /\ next[curr[s]] # NULL
        /\ Held(s) = {curr[s], next[curr[s]]} /\ Held(s)' = {next[curr[s]]}
    BY <1>1, <2>1 DEF WalkInv, Held
  <2>3. /\ next[curr[s]] \in Node /\ OnList(next[curr[s]])
        /\ curr[s] \in Node /\ next[curr[s]] # curr[s]
    BY <1>0, <1>1, <2>1, <2>2, SuccessorOnList
  <2>4. Release(s, curr[s])
    BY <1>9 DEF SwapTail
  <2>5. TypeOK'
    BY SMTT(20), <1>0, <1>9, <2>3, <2>4, ReleaseDef
    DEF SwapTail, TypeOK, SwapperPoints, Pointers
  <2>6. WalkInv(s)' /\ SwapInv(s)'
    BY <1>0, <1>1, <2>1, <2>2, <2>3 DEF WalkInv, SwapInv, OnList, Quiet
  <2> QED
    BY <1>0, <1>9, <2>1, <2>2, <2>3, <2>4, <2>5, <2>6, QuietStep DEF SwapTail
<1>10. CASE HoldFirst(s)
  <2>1. /\ Quiet(s) /\ pc'[s] = "hold2" /\ pc[s] = "hold1" /\ curr'[s] = curr[s]
    BY <1>0, <1>10 DEF HoldFirst, Quiet, TypeOK
  <2>2. /\ OnList(curr[s]) /\ curr[s] \in Node
        /\ Held(s) = {} /\ Held(s)' = {curr[s]}
    BY <1>0, <1>1, <2>1, OnListType DEF WalkInv, Held
  <2>3. Acquire(s, curr[s])
    BY <1>10 DEF HoldFirst
  <2>4. TypeOK'
    BY <1>0, <1>10, <2>2, <2>3, AcquireDef DEF HoldFirst, TypeOK, SwapperPoints
  <2>5. WalkInv(s)' /\ SwapInv(s)'
    BY <1>0, <1>1, <2>1, <2>2, OnListType DEF WalkInv, SwapInv, OnList, Quiet
  <2> QED
    BY <1>0, <1>10, <2>1, <2>2, <2>3, <2>4, <2>5, QuietStep DEF HoldFirst
<1>11. CASE HoldLast(s)
  <2>1. /\ Quiet(s) /\ pc'[s] = "choose" /\ pc[s] = "hold2" /\ curr'[s] = curr[s]
    BY <1>0, <1>11 DEF HoldLast, Quiet, TypeOK, Workers
  <2>2. /\ OnList(curr[s]) /\ curr[s] \in Node
        /\ Held(s) = {curr[s]} /\ Held(s)' = {}
    BY <1>0, <1>1, <2>1, OnListType DEF WalkInv, Held
  <2>3. Release(s, curr[s])
    BY <1>11 DEF HoldLast
  <2>4. TypeOK'
    BY <1>0, <1>11, <2>2, <2>3, ReleaseDef DEF HoldLast, TypeOK, SwapperPoints
  <2>5. WalkInv(s)' /\ SwapInv(s)'
    BY <1>0, <1>1, <2>1, <2>2 DEF WalkInv, SwapInv, OnList, Quiet
  <2> QED
    BY <1>0, <1>11, <2>1, <2>2, <2>3, <2>4, <2>5, QuietStep DEF HoldLast
<1>12. CASE HoldSecond(s)
  <2>1. /\ Quiet(s) /\ pc'[s] = "drop2" /\ pc[s] = "hold2" /\ curr'[s] = curr[s]
        /\ next' = next /\ next[curr[s]] # NULL
    BY <1>0, <1>12 DEF HoldSecond, Quiet, TypeOK
  <2>2. /\ OnList(curr[s]) /\ curr[s] # NULL
        /\ Held(s) = {curr[s]} /\ Held(s)' = {curr[s], next[curr[s]]}
    BY <1>1, <2>1 DEF WalkInv, Held
  <2>3. next[curr[s]] \in Node /\ next[curr[s]] # curr[s]
    BY <1>0, <1>1, <2>1, <2>2, SuccessorOnList
  <2>4. Acquire(s, next[curr[s]])
    BY <1>12 DEF HoldSecond
  <2>5. TypeOK'
    BY <1>0, <1>12, <2>3, <2>4, AcquireDef DEF HoldSecond, TypeOK, SwapperPoints
  <2>6. WalkInv(s)' /\ SwapInv(s)'
    BY <1>0, <1>1, <2>1, <2>2 DEF WalkInv, SwapInv, OnList, Quiet
  <2> QED
    BY <1>0, <1>12, <2>1, <2>2, <2>3, <2>4, <2>5, <2>6, QuietStep DEF HoldSecond
<1>13. CASE DropSecond(s)
  <2>1. /\ Quiet(s) /\ pc'[s] = "drop1" /\ pc[s] = "drop2"
        /\ curr'[s] = curr[s] /\ next' = next
    BY <1>0, <1>13 DEF DropSecond, Quiet, TypeOK, Workers
  <2>2. /\ OnList(curr[s]) /\ curr[s] # NULL /\ next[curr[s]] # NULL
        /\ Held(s) = {curr[s], next[curr[s]]} /\ Held(s)' = {curr[s]}
    BY <1>1, <2>1 DEF WalkInv, Held
  <2>3. /\ next[curr[s]] \in Node /\ OnList(next[curr[s]])
        /\ curr[s] \in Node /\ next[curr[s]] # curr[s]
    BY <1>0, <1>1, <2>1, <2>2, SuccessorOnList
  <2>4. Release(s, next[curr[s]])
    BY <1>13 DEF DropSecond
  <2>5. TypeOK'
    BY <1>0, <1>13, <2>3, <2>4, ReleaseDef DEF DropSecond, TypeOK, SwapperPoints
  <2>6. WalkInv(s)' /\ SwapInv(s)'
    BY <1>0, <1>1, <2>1, <2>2, <2>3 DEF WalkInv, SwapInv, OnList, Quiet
  <2> QED
    BY <1>0, <1>13, <2>1, <2>2, <2>3, <2>4, <2>5, <2>6, QuietStep DEF DropSecond
<1>14. CASE DropFirst(s)
  <2>1. /\ Quiet(s) /\ pc'[s] = "choose" /\ pc[s] = "drop1" /\ curr'[s] = curr[s]
    BY <1>0, <1>14 DEF DropFirst, Quiet, TypeOK, Workers
  <2>2. /\ OnList(curr[s]) /\ curr[s] \in Node
        /\ Held(s) = {curr[s]} /\ Held(s)' = {}
    BY <1>0, <1>1, <2>1, OnListType DEF WalkInv, Held
  <2>3. Release(s, curr[s])
    BY <1>14 DEF DropFirst
  <2>4. TypeOK'
    BY <1>0, <1>14, <2>2, <2>3, ReleaseDef DEF DropFirst, TypeOK, SwapperPoints
  <2>5. WalkInv(s)' /\ SwapInv(s)'
    BY <1>0, <1>1, <2>1, <2>2 DEF WalkInv, SwapInv, OnList, Quiet
  <2> QED
    BY <1>0, <1>14, <2>1, <2>2, <2>3, <2>4, <2>5, QuietStep DEF DropFirst
<1> QED
  BY <1>2, <1>3, <1>4, <1>5, <1>6, <1>7, <1>8, <1>9, <1>10, <1>11, <1>12,
     <1>13, <1>14

-----------------------------------------------------------------------------
(* Swaps. *)

Storing == {"store1", "store2", "store3"}

LEMMA RowType ==
  ASSUME TypeOK, ListMatchesOrder, NEW k, NEW l, NEW m, NEW n, InRow(k, l, m, n)
  PROVE  /\ k \in 1 .. Len(order) - 2
         /\ k \in 1 .. Len(order) /\ k + 1 \in 1 .. Len(order) /\ k + 2 \in 1 .. Len(order)
         /\ k + 1 \in 1 .. Len(order) - 1
         /\ l \in Node /\ m \in Node /\ n \in Node
         /\ l # m /\ l # n /\ m # n
         /\ OnList(l) /\ OnList(m) /\ OnList(n)
<1>1. Len(order) \in Nat /\ k \in 1 .. Len(order) - 2
  BY OrderType DEF InRow
<1>2. /\ k \in 1 .. Len(order) /\ k + 1 \in 1 .. Len(order) /\ k + 2 \in 1 .. Len(order)
      /\ k + 1 \in 1 .. Len(order) - 1 /\ k # k + 1 /\ k # k + 2 /\ k + 1 # k + 2
  BY <1>1
<1>3. order[k] = l /\ order[k + 1] = m /\ order[k + 2] = n
  BY DEF InRow
<1>4. l # m /\ l # n /\ m # n
  BY <1>2, <1>3 DEF ListMatchesOrder
<1> QED
  BY <1>1, <1>2, <1>3, <1>4, OrderType DEF OnList

(* Nobody shares a node with a swapper. *)
LEMMA Exclusive ==
  ASSUME LockInv, NEW s \in Swappers, NEW u \in Workers \ {s},
         NEW n \in Node, n \in Held(s)
  PROVE  n \notin Held(u)
BY DEF LockInv, Workers

(* A store of s leaves the others where they are: it writes to a node they *)
(* have not locked, and moves only nodes that s has locked.                *)
LEMMA StoreKeepsOthers ==
  ASSUME Inv, NEW s \in Swappers, pc[s] \in Storing,
         NEW n \in {curr[s], curr2[s], curr3[s]}, NEW m, next' = [next EXCEPT ![n] = m],
         UNCHANGED <<curr, curr2, curr3>>, \A u \in Workers \ {s} : pc'[u] = pc[u],
         Len(order') = Len(order),
         \A k \in 1 .. Len(order) :
           order[k] \notin {curr2[s], curr3[s]} => order'[k] = order[k],
         \A x \in Node : OnList(x) => OnList(x)',
         NEW u \in Workers \ {s}
  PROVE  Held(u)' = Held(u) /\ WalkInv(u)' /\ (u \in Swappers => SwapInv(u)')
<1>1. /\ TypeOK /\ LockInv /\ ListMatchesOrder /\ WalkInv(u) /\ s \in Workers
      /\ u \in Swappers => SwapInv(u)
  BY DEF Inv, PlaceInv, Workers
<1>2. Held(s) = {curr[s], curr2[s], curr3[s]}
  BY DEF Held, Storing
<1>3. PICK j \in 1 .. Len(order) : InRow(j, curr[s], curr2[s], curr3[s])
  BY <1>1 DEF Inv, PlaceInv, SwapInv, Storing
<1>4. \A x \in Held(s) : x \in Node /\ x \notin Held(u)
  BY <1>1, <1>2, <1>3, RowType, Exclusive
<1>5. \A x \in Held(u) : next'[x] = next[x] \/ x \notin Node
  BY <1>1, <1>2, <1>4 DEF TypeOK
<1>6. pc'[u] = pc[u] /\ curr'[u] = curr[u]
  OBVIOUS
<1>7. pc[u] \in {"compare", "third", "drop2"} =>
        curr[u] \in Held(u) /\ curr[u] \in Node /\ next'[curr[u]] = next[curr[u]]
  <2> SUFFICES ASSUME pc[u] \in {"compare", "third", "drop2"}
               PROVE  curr[u] \in Held(u) /\ curr[u] \in Node /\ next'[curr[u]] = next[curr[u]]
    OBVIOUS
  <2>1. curr[u] \in Held(u)
    BY DEF Held
  <2>2. curr[u] # NULL /\ OnList(curr[u])
    BY <1>1 DEF WalkInv
  <2> QED
    BY <1>1, <1>5, <2>1, <2>2, OnListType
<1>8. Held(u)' = Held(u)
  <2>1. u \in Swappers => curr2'[u] = curr2[u] /\ curr3'[u] = curr3[u]
    OBVIOUS
  <2>2. u \notin Swappers => pc[u] \in FinderPoints
    BY <1>1 DEF TypeOK, Workers
  <2> QED
    BY <1>6, <1>7, <2>1, <2>2 DEF Held, FinderPoints
<1>9. \A x : OnList(x) => x \in Node /\ OnList(x)'
  BY <1>1, OnListType
<1>10. WalkInv(u)'
  BY <1>1, <1>6, <1>7, <1>9 DEF WalkInv
<1>11. ASSUME u \in Swappers
       PROVE  SwapInv(u)'
  <2>1. /\ SwapInv(u) /\ curr2'[u] = curr2[u] /\ curr3'[u] = curr3[u]
    BY <1>1, <1>11
  <2>2. \A k \in 1 .. Len(order) : order[k] \in Held(u) => order'[k] = order[k]
    BY <1>2, <1>4
  <2>3. ASSUME NEW k \in 1 .. Len(order), order[k] \in Held(u)
        PROVE  After(k)' = After(k)
    <3>1. CASE k = Len(order)
      BY <3>1 DEF After
    <3>2. CASE k # Len(order)
      <4>1. k \in 1 .. Len(order) - 1 /\ k + 1 \in 1 .. Len(order)
        BY <1>1, <3>2, OrderType
      <4>2. /\ order[j] = curr[s] /\ order[j + 1] = curr2[s] /\ order[j + 2] = curr3[s]
            /\ j \in Nat /\ j + 1 \in 1 .. Len(order) /\ j + 2 \in 1 .. Len(order)
        BY <1>1, <1>3, RowType DEF InRow
      <4>3. order[k] \notin {curr[s], curr2[s]}
        BY <1>1, <1>2, <1>4, <2>3
      <4>4. k # j /\ k # j + 1
        BY <4>2, <4>3
      <4>5. k + 1 # j + 1 /\ k + 1 # j + 2
        BY <4>1, <4>2, <4>4
      <4>6. order[k + 1] \notin {curr2[s], curr3[s]}
        BY <1>1, <4>1, <4>2, <4>5 DEF ListMatchesOrder
      <4> QED
        BY <4>1, <4>6 DEF After
    <3> QED
      BY <3>1, <3>2
  <2>4. ASSUME NEW k, NEW x, NEW y, NEW z, InRow(k, x, y, z),
               x \in Held(u), y \in Held(u), z \in Held(u)
        PROVE  InRow(k, x, y, z)' /\ After(k + 2)' = After(k + 2)
    <3>1. k \in 1 .. Len(order) /\ k + 1 \in 1 .. Len(order) /\ k + 2 \in 1 .. Len(order)
      BY <1>1, <2>4, RowType
    <3> QED
      BY <2>2, <2>3, <2>4, <3>1 DEF InRow
  <2>5. ASSUME pc[u] \in Storing
        PROVE  SwapInv(u)'
    <3>1. PICK k \in 1 .. Len(order) :
             /\ InRow(k, curr[u], curr2[u], curr3[u])
             /\ pc[u] # "store1" => next[curr2[u]] = After(k + 2)
             /\ pc[u] = "store2" => next[curr3[u]] = After(k + 2)
             /\ pc[u] = "store3" => next[curr3[u]] = curr2[u]
      BY <2>1, <2>5 DEF SwapInv, Storing
    <3>2. Held(u) = {curr[u], curr2[u], curr3[u]}
      BY <2>5 DEF Held, Storing
    <3>3. next'[curr2[u]] = next[curr2[u]] /\ next'[curr3[u]] = next[curr3[u]]
      BY <1>1, <1>5, <3>1, <3>2, RowType
    <3>4. InRow(k, curr[u], curr2[u], curr3[u])' /\ After(k + 2)' = After(k + 2)
      BY <1>6, <2>1, <2>4, <3>1, <3>2
    <3> QED
      BY <1>6, <2>1, <2>5, <3>1, <3>3, <3>4 DEF SwapInv, Storing
  <2>6. ASSUME pc[u] \in {"load", "store_count", "release1"}
        PROVE  SwapInv(u)'
    <3>1. Held(u) = {curr[u], curr2[u], curr3[u]}
      BY <2>6 DEF Held
    <3> QED
      BY <1>6, <2>1, <2>4, <2>6, <3>1 DEF SwapInv
  <2>7. ASSUME pc[u] = "release2"
        PROVE  SwapInv(u)'
    <3>1. PICK k \in 1 .. Len(order) - 1 : order[k] = curr[u] /\ order[k + 1] = curr2[u]
      BY <2>1, <2>7 DEF SwapInv
    <3>2. order[k] \in Held(u) /\ order[k + 1] \in Held(u)
      BY <2>7, <3>1 DEF Held
    <3>3. k \in 1 .. Len(order) /\ k + 1 \in 1 .. Len(order)
      BY <1>1, OrderType
    <3>4. order'[k] = order[k] /\ order'[k + 1] = order[k + 1]
      BY <2>2, <3>2, <3>3
    <3> QED
      BY <1>6, <2>1, <2>7, <3>1, <3>4 DEF SwapInv
  <2>8. ASSUME pc[u] \notin Storing \cup {"load", "store_count", "release1", "release2"}
        PROVE  SwapInv(u)'
    BY <1>6, <1>9, <2>1, <2>8 DEF SwapInv, Storing
  <2> QED
    BY <2>5, <2>6, <2>7, <2>8
<1> QED
  BY <1>8, <1>10, <1>11

(* The steps of a swap before and after its stores. *)
LEMMA SwapKeepsInv ==
  ASSUME Inv, NEW s \in Swappers,
         \/ SwapThird(s) \/ SwapLoad(s) \/ SwapStoreCount(s)
         \/ SwapRelease1(s) \/ SwapRelease2(s) \/ SwapRelease3(s)
  PROVE  Inv'
<1> USE DEF Step, list, counters, locals, history
<1>0. s \in Workers /\ s \notin Finders /\ pc[s] \in SwapperPoints /\ TypeOK
  BY SwapListAssumption DEF Workers, Inv, TypeOK
<1>1. WalkInv(s) /\ SwapInv(s) /\ LockInv /\ ListMatchesOrder /\ PlaceInv
  BY <1>0 DEF Inv, PlaceInv
<1>2. CASE SwapThird(s)
  <2>1. /\ Quiet(s) /\ pc'[s] = "store1" /\ pc[s] = "third" /\ curr'[s] = curr[s]
        /\ curr2'[s] = next[curr[s]] /\ curr3'[s] = next[next[curr[s]]]
        /\ next' = next /\ order' = order /\ next[next[curr[s]]] # NULL
    BY <1>0, <1>2 DEF SwapThird, Quiet, TypeOK, Workers
  <2>2. /\ OnList(curr[s]) /\ curr[s] # NULL /\ next[curr[s]] # NULL
        /\ Held(s) = {curr[s], next[curr[s]]}
        /\ Held(s)' = {curr[s], next[curr[s]], next[next[curr[s]]]}
    BY <1>1, <2>1 DEF WalkInv, Held
  <2>3. PICK k \in 1 .. Len(order) - 1 :
           order[k] = curr[s] /\ order[k + 1] = next[curr[s]]
    BY <1>0, <1>1, <2>1, <2>2, SuccessorOnList
  <2>4. OnList(next[curr[s]]) /\ next[curr[s]] \in Node
    BY <1>0, <1>1, <2>1, <2>2, SuccessorOnList
  <2>5. PICK i \in 1 .. Len(order) - 1 :
           order[i] = next[curr[s]] /\ order[i + 1] = next[next[curr[s]]]
    BY <1>0, <1>1, <2>1, <2>2, <2>4, SuccessorOnList
  <2>6. i = k + 1 /\ k \in 1 .. Len(order) - 2
    BY <1>0, <1>1, <2>3, <2>5, OrderType DEF ListMatchesOrder
  <2>7. InRow(k, curr[s], next[curr[s]], next[next[curr[s]]])
    BY <1>0, <2>3, <2>5, <2>6, OrderType DEF InRow
  <2>8. /\ next[next[curr[s]]] \in Node /\ next[next[curr[s]]] \notin Held(s)
        /\ k \in 1 .. Len(order)
    BY <1>0, <1>1, <2>2, <2>7, RowType
  <2>9. Acquire(s, next[next[curr[s]]])
    BY <1>2 DEF SwapThird
  <2>10. TypeOK'
    BY SMTT(20), <1>0, <1>2, <2>4, <2>8, <2>9, AcquireDef
    DEF SwapThird, TypeOK, SwapperPoints, Pointers
  <2>11. WalkInv(s)'
    BY <2>1, <2>2 DEF WalkInv, OnList
  <2>12. InRow(k, curr[s], curr2[s], curr3[s])'
    BY <2>1, <2>7 DEF InRow
  <2>13. SwapInv(s)'
    BY <2>1, <2>8, <2>12 DEF SwapInv
  <2> QED
    BY <1>0, <1>2, <2>1, <2>2, <2>8, <2>9, <2>10, <2>11, <2>13, QuietStep
    DEF SwapThird
<1>3. CASE SwapLoad(s)
  <2>1. /\ Quiet(s) /\ pc'[s] = "store_count" /\ pc[s] = "load"
        /\ curr'[s] = next[curr[s]] /\ curr2'[s] = next[next[curr[s]]]
        /\ curr3'[s] = curr[s] /\ order' = order
    BY <1>0, <1>3 DEF SwapLoad, Quiet, TypeOK, Workers
  <2>2. PICK k \in 1 .. Len(order) : InRow(k, curr[s], curr3[s], curr2[s])
    BY <1>1, <2>1 DEF SwapInv
  <2>3. /\ order[k] = curr[s] /\ order[k + 1] = curr3[s] /\ order[k + 2] = curr2[s]
        /\ Held(s) = {curr[s], curr2[s], curr3[s]} /\ k \in Nat
    BY <2>1, <2>2 DEF InRow, Held
  <2>4. next[curr[s]] = curr3[s] /\ next[curr3[s]] = curr2[s]
    <3>1. k \in 1 .. Len(order) /\ k + 1 \in 1 .. Len(order)
          /\ k \in 1 .. Len(order) - 1 /\ k + 1 \in 1 .. Len(order) - 1
      BY <1>0, <1>1, <2>2, RowType, OrderType
    <3>2. next[order[k]] = After(k) /\ next[order[k + 1]] = After(k + 1)
      BY <1>0, <1>1, <2>1, <2>3, <3>1, HeldNext
    <3> QED
      BY <1>0, <2>3, <3>1, <3>2, OrderType
  <2>5. InRow(k, curr3[s], curr[s], curr2[s])'
    BY <2>1, <2>2, <2>4 DEF InRow
  <2>6. OnList(curr3[s]) /\ curr3[s] \in Node /\ curr2[s] \in Node /\ curr[s] \in Node
    BY <1>0, <1>1, <2>2, RowType
  <2>7. TypeOK'
    <3>1. /\ reg' \in [Workers -> Nat]
          /\ \A f \in Finders : reg'[f] \in {0, 1}
          /\ \A u \in Swappers : reg'[u] < Width
      BY SMTT(20), <1>0, <1>3, SwapListAssumption DEF SwapLoad, TypeOK, Workers
    <3> QED
      BY <1>0, <1>3, <2>4, <2>6, <3>1
      DEF SwapLoad, TypeOK, SwapperPoints, Pointers
  <2>8. WalkInv(s)' /\ SwapInv(s)'
    BY <2>1, <2>4, <2>5, <2>6 DEF WalkInv, SwapInv, OnList
  <2>9. Held(s)' = Held(s)
    BY <2>1, <2>3, <2>4 DEF Held
  <2> QED
    BY <1>0, <1>3, <2>1, <2>7, <2>8, <2>9, QuietStep DEF SwapLoad
<1>4. CASE SwapStoreCount(s)
  <2>1. /\ Quiet(s) /\ pc'[s] = "release1" /\ pc[s] = "store_count"
        /\ curr'[s] = curr[s] /\ curr2'[s] = curr2[s] /\ curr3'[s] = curr3[s]
        /\ order' = order
    BY <1>0, <1>4 DEF SwapStoreCount, Quiet, TypeOK
  <2>2. TypeOK'
    <3>1. (reg[s] + 1) % Width \in 0 .. Width - 1
      <4>1. reg[s] + 1 \in Nat
        BY <1>0 DEF TypeOK
      <4> QED
        BY <4>1, SwapListAssumption
    <3> QED
      BY SMTT(20), <1>0, <1>4, <3>1, SwapListAssumption
      DEF SwapStoreCount, TypeOK, SwapperPoints
  <2>3. WalkInv(s)' /\ SwapInv(s)' /\ Held(s)' = Held(s)
    BY <1>1, <2>1 DEF WalkInv, SwapInv, OnList, InRow, Held
  <2> QED
    BY <1>0, <1>4, <2>1, <2>2, <2>3, QuietStep DEF SwapStoreCount
<1>5. CASE SwapRelease1(s)
  <2>1. /\ Quiet(s) /\ pc'[s] = "release2" /\ pc[s] = "release1"
        /\ curr'[s] = curr[s] /\ curr2'[s] = curr2[s] /\ order' = order
    BY <1>0, <1>5 DEF SwapRelease1, Quiet, TypeOK
  <2>2. PICK k \in 1 .. Len(order) : InRow(k, curr3[s], curr[s], curr2[s])
    BY <1>1, <2>1 DEF SwapInv
  <2>3. /\ curr3[s] \in Node /\ curr3[s] # curr[s] /\ curr3[s] # curr2[s]
        /\ k + 1 \in 1 .. Len(order) - 1 /\ k \in Nat
    BY <1>0, <1>1, <2>2, RowType
  <2>4. order[k + 1] = curr[s] /\ order[(k + 1) + 1] = curr2[s]
    BY <2>2, <2>3 DEF InRow
  <2>5. Held(s) = {curr[s], curr2[s], curr3[s]} /\ Held(s)' = {curr[s], curr2[s]}
    BY <2>1 DEF Held
  <2>6. Release(s, curr3[s])
    BY <1>5 DEF SwapRelease1
  <2>7. TypeOK'
    BY <1>0, <1>5, <2>3, <2>6, ReleaseDef
    DEF SwapRelease1, TypeOK, SwapperPoints, Pointers
  <2>8. WalkInv(s)' /\ SwapInv(s)'
    BY <1>1, <2>1, <2>3, <2>4 DEF WalkInv, SwapInv, OnList
  <2> QED
    BY <1>0, <1>5, <2>1, <2>3, <2>5, <2>6, <2>7, <2>8, QuietStep DEF SwapRelease1
<1>6. CASE SwapRelease2(s)
  <2>1. /\ Quiet(s) /\ pc'[s] = "release3" /\ pc[s] = "release2"
        /\ curr'[s] = curr[s] /\ curr2'[s] = curr2[s] /\ order' = order
    BY <1>0, <1>6 DEF SwapRelease2, Quiet, TypeOK
  <2>2. PICK k \in 1 .. Len(order) - 1 : order[k] = curr[s] /\ order[k + 1] = curr2[s]
    BY <1>1, <2>1 DEF SwapInv
  <2>3. /\ curr[s] \in Node /\ curr[s] # NULL /\ curr2[s] # curr[s]
        /\ k + 1 \in 1 .. Len(order)
    BY <1>0, <1>1, <2>2, OrderType DEF ListMatchesOrder
  <2>4. Held(s) = {curr[s], curr2[s]} /\ Held(s)' = {curr2[s]}
    BY <2>1 DEF Held
  <2>5. Release(s, curr[s])
    BY <1>6 DEF SwapRelease2
  <2>6. TypeOK'
    BY <1>0, <1>6, <2>3, <2>5, ReleaseDef DEF SwapRelease2, TypeOK, SwapperPoints
  <2>7. WalkInv(s)' /\ SwapInv(s)'
    BY <1>1, <2>1, <2>2, <2>3 DEF WalkInv, SwapInv, OnList
  <2> QED
    BY <1>0, <1>6, <2>1, <2>3, <2>4, <2>5, <2>6, <2>7, QuietStep DEF SwapRelease2
<1>7. CASE SwapRelease3(s)
  <2>1. /\ Quiet(s) /\ pc'[s] = "choose" /\ pc[s] = "release3"
        /\ curr'[s] = curr[s] /\ order' = order
    BY <1>0, <1>7 DEF SwapRelease3, Quiet, TypeOK
  <2>2. curr2[s] \in Node /\ Held(s) = {curr2[s]} /\ Held(s)' = {}
    BY <1>0, <1>1, <2>1, OnListType DEF SwapInv, Held
  <2>3. Release(s, curr2[s])
    BY <1>7 DEF SwapRelease3
  <2>4. TypeOK'
    BY <1>0, <1>7, <2>2, <2>3, ReleaseDef
    DEF SwapRelease3, TypeOK, SwapperPoints, Pointers
  <2>5. WalkInv(s)' /\ SwapInv(s)'
    BY <1>1, <2>1 DEF WalkInv, SwapInv, OnList
  <2> QED
    BY <1>0, <1>7, <2>1, <2>2, <2>3, <2>4, <2>5, QuietStep DEF SwapRelease3
<1> QED
  BY <1>2, <1>3, <1>4, <1>5, <1>6, <1>7

(* The three stores, in their order; the last one makes the exchange.      *)
LEMMA StoreKeepsInv ==
  ASSUME Inv, NEW s \in Swappers, SwapStore1(s) \/ SwapStore2(s) \/ SwapStore3(s)
  PROVE  Inv'
<1> USE DEF Step, list, counters, locals, history
<1>0. s \in Workers /\ s \notin Finders /\ TypeOK /\ pc[s] \in Storing
  BY SwapListAssumption
  DEF Workers, Inv, SwapStore1, SwapStore2, SwapStore3, Storing
<1>1. WalkInv(s) /\ SwapInv(s) /\ LockInv /\ ListMatchesOrder /\ PlaceInv
  BY <1>0 DEF Inv, PlaceInv
<1>2. PICK k \in 1 .. Len(order) :
         /\ InRow(k, curr[s], curr2[s], curr3[s])
         /\ pc[s] # "store1" => next[curr2[s]] = After(k + 2)
         /\ pc[s] = "store2" => next[curr3[s]] = After(k + 2)
         /\ pc[s] = "store3" => next[curr3[s]] = curr2[s]
  BY <1>0, <1>1 DEF SwapInv, Storing
<1>3. /\ order[k] = curr[s] /\ order[k + 1] = curr2[s] /\ order[k + 2] = curr3[s]
      /\ k \in 1 .. Len(order) /\ k + 1 \in 1 .. Len(order) /\ k + 2 \in 1 .. Len(order)
      /\ curr[s] \in Node /\ curr2[s] \in Node /\ curr3[s] \in Node
      /\ curr[s] # curr2[s] /\ curr[s] # curr3[s] /\ curr2[s] # curr3[s]
      /\ Len(order) \in Nat /\ k \in 1 .. Len(order) - 2
  BY <1>0, <1>1, <1>2, RowType, OrderType DEF InRow
<1>4. Held(s) = {curr[s], curr2[s], curr3[s]}
  BY <1>0 DEF Held, Storing
(* Neither the swapper s nor any other moves a node that s does not hold.  *)
<1>5. \A n \in Held(s) : \A u \in Swappers \ {s} :
        pc[u] \in {"store2", "store3"} => n # curr2[u] /\ n # curr3[u]
  <2> SUFFICES ASSUME NEW n \in Held(s), NEW u \in Swappers \ {s},
                      pc[u] \in {"store2", "store3"}
               PROVE  n # curr2[u] /\ n # curr3[u]
    OBVIOUS
  <2>1. n \notin Held(u)
    BY <1>1, <1>3, <1>4, Exclusive DEF Workers
  <2> QED
    BY <2>1 DEF Held
<1>6. CASE SwapStore1(s)
  <2>1. /\ pc[s] = "store1" /\ pc' = [pc EXCEPT ![s] = "store2"]
        /\ next' = [next EXCEPT ![curr2[s]] = next[curr3[s]]]
        /\ UNCHANGED <<kind, first, sync, counters, created, locals, status, history>>
    BY <1>6 DEF SwapStore1
  <2>2. TypeOK'
    BY SMTT(20), <1>0, <1>3, <2>1 DEF TypeOK, SwapperPoints
  <2>3. \A u \in Workers \ {s} :
           Held(u)' = Held(u) /\ WalkInv(u)' /\ (u \in Swappers => SwapInv(u)')
    <3>1. /\ order' = order /\ curr' = curr /\ curr2' = curr2 /\ curr3' = curr3
          /\ \A u \in Workers \ {s} : pc'[u] = pc[u]
      BY <1>0, <2>1 DEF TypeOK
    <3>2. \A x \in Node : OnList(x) => OnList(x)'
      BY <3>1 DEF OnList
    <3> QED
      BY <1>0, <2>1, <3>1, <3>2, StoreKeepsOthers
  <2>4. next[curr3[s]] = After(k + 2)
    BY <1>0, <1>1, <1>3, <1>4, <2>1, HeldNext
  <2>5. next'[curr2[s]] = After(k + 2) /\ next'[curr3[s]] = After(k + 2)
    BY <1>0, <1>3, <2>1, <2>4 DEF TypeOK
  <2>6. pc'[s] = "store2"
    BY <1>0, <2>1 DEF TypeOK
  <2>7. SwapInv(s)' /\ WalkInv(s)' /\ Held(s)' = Held(s)
    <3>1. InRow(k, curr[s], curr2[s], curr3[s])' /\ After(k + 2)' = After(k + 2)
      BY <1>2, <2>1 DEF InRow, After
    <3>2. SwapInv(s)'
      BY <1>3, <2>1, <2>5, <2>6, <3>1 DEF SwapInv
    <3> QED
      BY <1>1, <1>4, <2>1, <2>6, <3>2 DEF WalkInv, OnList, Held
  <2>8. ListMatchesOrder'
    <3>1. \A n : n \in InSwap \/ n \in {curr2[s], curr3[s]} => n \in InSwap'
      BY <1>0, <2>1, <2>6 DEF InSwap, TypeOK
    <3>2. \A n \in Node : n # curr2[s] => next'[n] = next[n]
      BY <1>0, <2>1 DEF TypeOK
    <3> QED
      BY <1>0, <1>1, <2>1, <3>1, <3>2, OrderType DEF ListMatchesOrder
  <2> QED
    BY <1>0, <2>1, <2>2, <2>3, <2>7, <2>8, LockKept, BirthKept
    DEF Inv, PlaceInv, LocksUsedRight, Storing
<1>7. CASE SwapStore2(s)
  <2>1. /\ pc[s] = "store2" /\ pc' = [pc EXCEPT ![s] = "store3"]
        /\ next' = [next EXCEPT ![curr3[s]] = curr2[s]]
        /\ UNCHANGED <<kind, first, sync, counters, created, locals, status, history>>
    BY <1>7 DEF SwapStore2
  <2>2. TypeOK'
    BY <1>0, <1>3, <2>1 DEF TypeOK, SwapperPoints, Pointers
  <2>3. \A u \in Workers \ {s} :
           Held(u)' = Held(u) /\ WalkInv(u)' /\ (u \in Swappers => SwapInv(u)')
    <3>1. /\ order' = order /\ curr' = curr /\ curr2' = curr2 /\ curr3' = curr3
          /\ \A u \in Workers \ {s} : pc'[u] = pc[u]
      BY <1>0, <2>1 DEF TypeOK
    <3>2. \A x \in Node : OnList(x) => OnList(x)'
      BY <3>1 DEF OnList
    <3> QED
      BY <1>0, <2>1, <3>1, <3>2, StoreKeepsOthers
  <2>4. next'[curr2[s]] = After(k + 2) /\ next'[curr3[s]] = curr2[s]
    BY <1>0, <1>2, <1>3, <2>1 DEF TypeOK
  <2>5. pc'[s] = "store3"
    BY <1>0, <2>1 DEF TypeOK
  <2>6. SwapInv(s)' /\ WalkInv(s)' /\ Held(s)' = Held(s)
    <3>1. InRow(k, curr[s], curr2[s], curr3[s])' /\ After(k + 2)' = After(k + 2)
      BY <1>2, <2>1 DEF InRow, After
    <3>2. SwapInv(s)'
      BY <1>3, <2>1, <2>4, <2>5, <3>1 DEF SwapInv
    <3> QED
      BY <1>1, <1>4, <2>1, <2>5, <3>2 DEF WalkInv, OnList, Held
  <2>7. ListMatchesOrder'
    <3>1. \A n : n \in InSwap \/ n \in {curr2[s], curr3[s]} => n \in InSwap'
      BY <1>0, <2>1, <2>5 DEF InSwap, TypeOK
    <3>2. \A n \in Node : n # curr3[s] => next'[n] = next[n]
      BY <1>0, <2>1 DEF TypeOK
    <3> QED
      BY <1>0, <1>1, <2>1, <3>1, <3>2, OrderType DEF ListMatchesOrder
  <2> QED
    BY <1>0, <2>1, <2>2, <2>3, <2>6, <2>7, LockKept, BirthKept
    DEF Inv, PlaceInv, LocksUsedRight, Storing
<1>8. CASE SwapStore3(s)
  <2>1. /\ pc[s] = "store3" /\ pc' = [pc EXCEPT ![s] = "load"]
        /\ next' = [next EXCEPT ![curr[s]] = curr3[s]]
        /\ order' = Exchanged(curr2[s], curr3[s]) /\ swaps' = swaps + 1
        /\ calm' = [f \in Finders |-> FALSE]
        /\ UNCHANGED <<kind, first, sync, counters, created, locals, status, before>>
    BY <1>8 DEF SwapStore3
  <2>2. /\ Len(order') = Len(order) /\ order' \in Seq(Node)
        /\ order'[k] = curr[s] /\ order'[k + 1] = curr3[s] /\ order'[k + 2] = curr2[s]
        /\ \A j \in 1 .. Len(order) :
             j # k + 1 /\ j # k + 2 => order'[j] = order[j] /\ order[j] \notin {curr2[s], curr3[s]}
    <3>1. order' = [j \in 1 .. Len(order) |->
             IF order[j] = curr2[s] THEN curr3[s]
             ELSE IF order[j] = curr3[s] THEN curr2[s] ELSE order[j]]
      BY <2>1 DEF Exchanged
    <3>2. order' \in Seq(Node)
      BY <1>0, <1>3, <3>1, OrderType, IsASeq
    <3>3. Len(order') = Len(order)
      BY <1>3, <3>1, <3>2, LenProperties
    <3> QED
      BY <1>1, <1>3, <3>1, <3>2, <3>3 DEF ListMatchesOrder
  <2>3. TypeOK'
    <3>1. next' \in [Node -> Pointers] /\ order' \in Seq(Node)
      BY <1>0, <1>3, <2>1, <2>2 DEF TypeOK, Pointers
    <3>2. pc' \in [Workers -> FinderPoints \cup SwapperPoints]
      BY <1>0, <2>1 DEF TypeOK, SwapperPoints
    <3>3. /\ \A f \in Finders : pc'[f] \in FinderPoints
          /\ \A u \in Swappers : pc'[u] \in SwapperPoints
      BY <1>0, <2>1 DEF TypeOK, SwapperPoints
    <3>4. calm' \in [Finders -> BOOLEAN] /\ swaps' \in Nat
      BY <1>0, <2>1 DEF TypeOK
    <3> QED
      BY <1>0, <2>1, <3>1, <3>2, <3>3, <3>4 DEF TypeOK, locals
  <2>4. \A x \in Node : OnList(x) => OnList(x)'
    <3> SUFFICES ASSUME NEW j \in 1 .. Len(order), order[j] \in Node
                 PROVE  \E i \in 1 .. Len(order') : order'[i] = order[j]
      BY DEF OnList
    <3>1. CASE j = k + 1
      BY <1>3, <2>2, <3>1
    <3>2. CASE j = k + 2
      BY <1>3, <2>2, <3>2
    <3> QED
      BY <2>2, <3>1, <3>2
  <2>5. \A u \in Workers \ {s} :
           Held(u)' = Held(u) /\ WalkInv(u)' /\ (u \in Swappers => SwapInv(u)')
    <3>1. /\ curr' = curr /\ curr2' = curr2 /\ curr3' = curr3
          /\ \A u \in Workers \ {s} : pc'[u] = pc[u]
      BY <1>0, <2>1 DEF TypeOK
    <3>2. \A j \in 1 .. Len(order) :
             order[j] \notin {curr2[s], curr3[s]} => order'[j] = order[j]
      BY <1>3, <2>2
    <3> QED
      BY <1>0, <2>1, <2>2, <2>4, <3>1, <3>2, StoreKeepsOthers
  <2>6. pc'[s] = "load"
    BY <1>0, <2>1 DEF TypeOK
  <2>7. SwapInv(s)' /\ WalkInv(s)' /\ Held(s)' = Held(s)
    <3>1. InRow(k, curr[s], curr3[s], curr2[s])'
      BY <1>3, <2>1, <2>2 DEF InRow
    <3>2. SwapInv(s)'
      BY <1>3, <2>2, <2>6, <3>1 DEF SwapInv
    <3>3. OnList(curr[s])'
      BY <1>3, <2>1, <2>2 DEF OnList
    <3> QED
      BY <1>1, <1>4, <2>1, <2>6, <3>2, <3>3 DEF WalkInv, Held
  <2>8. ListMatchesOrder'
    <3>1. \A n : n \in InSwap => n \in InSwap' \/ n \in {curr2[s], curr3[s]}
      BY <1>0, <2>1 DEF InSwap, TypeOK
    <3>2. /\ next'[curr[s]] = curr3[s]
          /\ \A n \in Node : n # curr[s] => next'[n] = next[n]
      BY <1>0, <1>3, <2>1 DEF TypeOK
    <3>3. next'[curr2[s]] = After(k + 2) /\ next'[curr3[s]] = curr2[s]
      BY <1>2, <1>3, <2>1, <3>2
    <3>4. \A i, j \in 1 .. Len(order') : order'[i] = order'[j] => i = j
      BY SMTT(20), <1>1, <1>3, <2>2 DEF ListMatchesOrder
    <3>5. \A j \in 1 .. Len(order) : j # k /\ j # k + 1 => After(j)' = After(j)
      <4> SUFFICES ASSUME NEW j \in 1 .. Len(order), j # k, j # k + 1, j # Len(order)
                   PROVE  order'[j + 1] = order[j + 1]
        BY <2>2 DEF After
      <4>1. j + 1 \in 1 .. Len(order) /\ j + 1 # k + 1 /\ j + 1 # k + 2
        BY <1>3
      <4> QED
        BY <2>2, <4>1
    <3>6. After(k)' = curr3[s] /\ After(k + 1)' = curr2[s]
      BY <1>3, <2>2 DEF After
    <3>7. ASSUME NEW j \in 1 .. Len(order'), order'[j] \notin InSwap'
          PROVE  next'[order'[j]] = After(j)'
      <4>1. CASE j = k
        BY <2>2, <3>2, <3>6, <4>1
      <4>2. CASE j = k + 1
        BY <2>2, <3>3, <3>6, <4>2
      <4>3. CASE j = k + 2
        BY <1>3, <2>2, <3>3, <3>5, <4>3
      <4>4. CASE j \notin {k, k + 1, k + 2}
        <5>1. order'[j] = order[j] /\ order[j] \notin {curr2[s], curr3[s]} /\ order[j] \in Node
          BY <1>0, <2>2, <4>4, OrderType
        <5>2. order[j] # curr[s]
          BY <1>1, <1>3, <2>2, <4>4 DEF ListMatchesOrder
        <5>3. next'[order[j]] = next[order[j]] /\ order[j] \notin InSwap
          BY <3>1, <3>2, <3>7, <5>1, <5>2
        <5>4. next[order[j]] = After(j)
          BY <1>1, <2>2, <5>3 DEF ListMatchesOrder, After
        <5> QED
          BY <2>2, <3>5, <4>4, <5>1, <5>3, <5>4
      <4> QED
        BY <4>1, <4>2, <4>3, <4>4
    <3>8. first' = IF order' = <<>> THEN NULL ELSE order'[1]
      <4>1. order # <<>> /\ order' # <<>>
        BY <1>3, <2>2, EmptySeq
      <4>2. order'[1] = order[1]
        BY <1>3, <2>2
      <4> QED
        BY <1>1, <2>1, <4>1, <4>2 DEF ListMatchesOrder
    <3>9. \A j \in 1 .. Len(order') :
             order'[j] \notin InSwap' =>
               next'[order'[j]] = IF j = Len(order') THEN NULL ELSE order'[j + 1]
      BY <3>7 DEF After
    <3> QED
      BY <3>4, <3>8, <3>9 DEF ListMatchesOrder
  <2> QED
    BY <1>0, <2>1, <2>3, <2>5, <2>7, <2>8, LockKept, BirthKept
    DEF Inv, PlaceInv, LocksUsedRight, Storing
<1> QED
  BY <1>6, <1>7, <1>8

-----------------------------------------------------------------------------

LEMMA Initially == Init => Inv
<1> SUFFICES ASSUME Init PROVE Inv
  OBVIOUS
<1>1. /\ order \in Seq(Node)
      /\ \A j, k \in 1 .. Len(order) : order[j] = order[k] => j = k
  BY SwapListAssumption DEF Init
<1>2. Len(order) \in Nat /\ \A k \in 1 .. Len(order) : order[k] \in Node
  BY <1>1, LenProperties, ElementOfSeq
<1>3. \A k \in 1 .. Len(order) - 1 : next[order[k]] = order[k + 1]
  <2> SUFFICES ASSUME NEW k \in 1 .. Len(order) - 1
               PROVE  next[order[k]] = order[k + 1]
    OBVIOUS
  <2> DEFINE c(n) == CHOOSE j \in 1 .. Len(order) - 1 : order[j] = n
  <2>1. \A n \in Node : (\E j \in 1 .. Len(order) - 1 : order[j] = n)
                          => next[n] = order[1 + c(n)]
    BY DEF Init
  <2>2. \A n : (\E j \in 1 .. Len(order) - 1 : order[j] = n)
                 => c(n) \in 1 .. Len(order) - 1 /\ order[c(n)] = n
    OBVIOUS
  <2> HIDE DEF c
  <2>3. order[k] \in Node /\ c(order[k]) = k
    BY <1>1, <1>2, <2>2
  <2> QED
    BY <1>2, <2>1, <2>3
<1>4. Len(order) # 0 => next[order[Len(order)]] = NULL
  BY <1>1, <1>2 DEF Init
<1>5. next \in [Node -> Pointers]
  <2> SUFFICES ASSUME NEW n \in Node
               PROVE  next[n] \in Pointers
    BY DEF Init
  <2>1. CASE \E k \in 1 .. Len(order) - 1 : order[k] = n
    <3>1. PICK k \in 1 .. Len(order) - 1 : order[k] = n
      BY <2>1
    <3> QED
      BY <1>2, <1>3, <3>1 DEF Pointers
  <2>2. CASE ~ \E k \in 1 .. Len(order) - 1 : order[k] = n
    BY <2>2 DEF Init, Pointers
  <2> QED
    BY <2>1, <2>2
<1>6. TypeOK
  <2>1. first \in Pointers
    BY <1>1, <1>2, EmptySeq DEF Init, Pointers
  <2>2. /\ kind \in Kinds /\ sync \in [Node -> SUBSET Workers]
        /\ created \in 0 .. Len(threads) /\ status \in {"running", "lock_error", "no_thread"}
        /\ swaps \in Nat /\ calm \in [Finders -> BOOLEAN]
        /\ pc \in [Workers -> FinderPoints \cup SwapperPoints]
        /\ \A f \in Finders : pc[f] \in FinderPoints
        /\ \A s \in Swappers : pc[s] \in SwapperPoints
    BY SwapListAssumption, LenProperties DEF Init, Workers, FinderPoints, SwapperPoints
  <2>3. /\ SWAP_PERMUTATIONS_COUNT \in 0 .. Width - 1
        /\ iterationsCount \in [Finders -> 0 .. Width - 1]
        /\ compareCount \in [Finders -> 0 .. Width - 1]
        /\ before \in [Finders -> 0 .. Width - 1]
        /\ reg \in [Workers -> Nat]
        /\ \A f \in Finders : reg[f] \in {0, 1}
        /\ \A s \in Swappers : reg[s] < Width
    BY SwapListAssumption DEF Init, Workers
  <2>4. /\ curr \in [Workers -> Pointers] /\ curr2 \in [Swappers -> Pointers]
        /\ curr3 \in [Swappers -> Pointers]
    BY DEF Init, Pointers
  <2> QED
    BY <1>1, <1>5, <2>1, <2>2, <2>3, <2>4 DEF TypeOK
<1>7. ListMatchesOrder
  <2>1. \A k \in 1 .. Len(order) :
           next[order[k]] = IF k = Len(order) THEN NULL ELSE order[k + 1]
    BY <1>2, <1>3, <1>4
  <2> QED
    BY <1>1, <2>1 DEF ListMatchesOrder, Init
<1>8. \A t \in Workers : pc[t] = "unborn" /\ curr[t] = NULL /\ Held(t) = {}
  BY DEF Init, Held
<1>9. LockInv /\ PlaceInv /\ BirthInv /\ LocksUsedRight
  BY <1>8 DEF Init, LockInv, PlaceInv, WalkInv, SwapInv, BirthInv, LocksUsedRight, Workers
<1> QED
  BY <1>6, <1>7, <1>9 DEF Inv

(* main starts a thread that has not run before; the others do not notice. *)
LEMMA CreateKeepsInv == Inv /\ (Create \/ CreateFails) => Inv'
<1> SUFFICES ASSUME Inv, Create \/ CreateFails PROVE Inv'
  OBVIOUS
<1> USE DEF list, counters, locals, history
<1>0. TypeOK /\ LockInv /\ ListMatchesOrder /\ PlaceInv /\ BirthInv
  BY DEF Inv
<1>1. CASE Create
  <2>1. /\ created \in Nat /\ created' = created + 1 /\ created' \in 0 .. Len(threads)
        /\ UNCHANGED <<list, sync, locals, status, history>>
    BY <1>0, <1>1, SwapListAssumption, LenProperties DEF Create, TypeOK
  <2>2. \A t \in Workers :
           \/ pc'[t] = pc[t]
           \/ pc[t] = "unborn" /\ pc'[t] \in {"start", "check"} /\ t = threads[created']
    <3> SUFFICES ASSUME NEW t \in Workers, pc'[t] # pc[t]
                 PROVE  pc[t] = "unborn" /\ pc'[t] \in {"start", "check"} /\ t = threads[created']
      OBVIOUS
    <3>1. t = threads[created + 1] /\ pc'[t] \in {"start", "check"}
      BY <1>1 DEF Create
    <3>2. \A k \in 1 .. created : threads[k] # t
      BY <2>1, <3>1, SwapListAssumption
    <3> QED
      BY <1>0, <2>1, <3>1, <3>2 DEF BirthInv
  <2>3. TypeOK'
    <3>1. /\ pc' \in [Workers -> FinderPoints \cup SwapperPoints]
          /\ \A f \in Finders : pc'[f] \in FinderPoints
          /\ \A s \in Swappers : pc'[s] \in SwapperPoints
      BY <1>0, <1>1, SwapListAssumption
      DEF TypeOK, Create, FinderPoints, SwapperPoints, Workers
    <3> QED
      BY <1>0, <1>1, <2>1, <3>1 DEF TypeOK, Create
  <2>4. \A t \in Workers : Held(t)' = Held(t)
    BY <2>1, <2>2 DEF Held
  <2>5. PlaceInv'
    <3> SUFFICES ASSUME NEW t \in Workers
                 PROVE  WalkInv(t)' /\ (t \in Swappers => SwapInv(t)')
      BY DEF PlaceInv
    <3>1. WalkInv(t) /\ (t \in Swappers => SwapInv(t))
      BY <1>0 DEF PlaceInv
    <3>2. CASE pc'[t] = pc[t]
      BY <2>1, <3>1, <3>2 DEF WalkInv, SwapInv, OnList, InRow, After
    <3>3. CASE pc'[t] \in {"start", "check"}
      BY <2>1, <3>1, <3>3 DEF WalkInv, SwapInv, OnList
    <3> QED
      BY <2>2, <3>2, <3>3
  <2>6. ListMatchesOrder'
    <3>1. \A n : n \in InSwap => n \in InSwap'
      BY <2>1, <2>2 DEF InSwap, Workers
    <3> QED
      BY <1>0, <2>1, <3>1 DEF ListMatchesOrder
  <2>7. BirthInv'
    BY <1>0, <2>1, <2>2 DEF BirthInv
  <2> QED
    BY <1>0, <2>1, <2>3, <2>4, <2>5, <2>6, <2>7, LockKept DEF Inv, LocksUsedRight
<1>2. CASE CreateFails
  <2>1. /\ UNCHANGED <<kind, list, sync, counters, created, pc, locals, history>>
        /\ status' = "no_thread"
    BY <1>2 DEF CreateFails
  <2>2. TypeOK' /\ LocksUsedRight'
    BY <1>0, <2>1 DEF TypeOK, LocksUsedRight
  <2>3. ListMatchesOrder'
    BY <1>0, <2>1 DEF ListMatchesOrder, InSwap
  <2>4. LockInv'
    BY <1>0, <2>1 DEF LockInv, Held
  <2>5. PlaceInv' /\ BirthInv'
    BY <1>0, <2>1 DEF PlaceInv, WalkInv, SwapInv, OnList, InRow, After, BirthInv
  <2> QED
    BY <2>2, <2>3, <2>4, <2>5 DEF Inv
<1> QED
  BY <1>1, <1>2

LEMMA StutterKeepsInv == Inv /\ UNCHANGED vars => Inv'
<1> SUFFICES ASSUME Inv, UNCHANGED vars PROVE Inv'
  OBVIOUS
<1> USE DEF list, counters, locals, history, vars, Inv
<1>1. TypeOK' /\ LocksUsedRight'
  BY DEF TypeOK, LocksUsedRight
<1>2. ListMatchesOrder'
  BY DEF ListMatchesOrder, InSwap
<1>3. LockInv'
  BY DEF LockInv, Held
<1>4. BirthInv'
  BY DEF BirthInv
<1>5. PlaceInv'
  <2>1. UNCHANGED <<order, next, pc, curr, curr2, curr3>> /\ PlaceInv
    OBVIOUS
  <2> HIDE DEF Inv, vars
  <2> QED
    BY ZenonT(30), <2>1 DEF PlaceInv, WalkInv, SwapInv, OnList, InRow, After
<1> QED
  BY <1>1, <1>2, <1>3, <1>4, <1>5

LEMMA NextKeepsInv == Inv /\ [Next]_vars => Inv'
<1> SUFFICES ASSUME Inv, [Next]_vars PROVE Inv'
  OBVIOUS
<1>1. ASSUME NEW f \in Finders, Finder(f) PROVE Inv'
  BY <1>1, FinderKeepsInv
<1>2. ASSUME NEW s \in Swappers, Swapper(s) PROVE Inv'
  BY <1>2, WalkKeepsInv, StoreKeepsInv, SwapKeepsInv DEF Swapper
<1> QED
  BY <1>1, <1>2, CreateKeepsInv, StutterKeepsInv DEF Next

(* The list, the locks and every thread's place in the list fit together   *)
(* in every state the program can reach.                                   *)
THEOREM Invariance == Spec => []Inv
<1> QED
  BY Initially, NextKeepsInv, PTL DEF Spec

(* Every variable keeps its declared type, whatever the threads do.        *)
THEOREM TypeCorrect == Spec => []TypeOK
<1>1. Inv => TypeOK
  BY DEF Inv
<1> QED
  BY <1>1, Invariance, PTL

(* However many swaps overlap, no node of the list is lost or doubled, and *)
(* the order is that which the finished swaps have made.                   *)
THEOREM ListSafe == Spec => []ListMatchesOrder
<1>1. Inv => ListMatchesOrder
  BY DEF Inv
<1> QED
  BY <1>1, Invariance, PTL

-----------------------------------------------------------------------------
(* Who waits for whom. *)

LEMMA LastOne ==
  ASSUME NEW L \in Nat, NEW S \in SUBSET (1 .. L), S # {}
  PROVE  \E m \in S : \A k \in S : k <= m
<1> DEFINE T == {L - k : k \in S}
<1>1. T \subseteq Nat
  OBVIOUS
<1>2. T # {}
  OBVIOUS
<1>3. PICK x \in T : \A y \in T : ~ (<<y, x>> \in OpToRel(<, Nat))
  <2> HIDE DEF T
  <2> QED
    BY <1>1, <1>2, NatLessThanWellFounded, WFMin
<1>4. \A y \in T : ~ (y < x)
  <2> HIDE DEF T
  <2> QED
    BY <1>1, <1>3 DEF OpToRel
<1>5. PICK m \in S : x = L - m
  OBVIOUS
<1>6. \A k \in S : L - k \in T
  OBVIOUS
<1>7. ASSUME NEW k \in S PROVE k <= m
  <2>1. L - k \in T /\ L - m = x
    BY <1>5, <1>6
  <2>2. ~ (L - k < L - m)
    <3> HIDE DEF T
    <3> QED BY <1>4, <2>1
  <2>3. k \in Int /\ m \in Int
    OBVIOUS
  <2> QED
    BY <2>2, <2>3
<1> QED
  BY <1>7

(* A thread that waits has locked only nodes before the one it waits for.  *)
LEMMA WaitsAhead ==
  ASSUME Inv, NEW t \in Workers, Wanted(t) # NULL
  PROVE  \E k \in 1 .. Len(order) :
           /\ order[k] = Wanted(t)
           /\ \A j \in 1 .. Len(order) : order[j] \in Held(t) => j < k
<1>0. TypeOK /\ LockInv /\ ListMatchesOrder /\ PlaceInv /\ WalkInv(t)
  BY DEF Inv, PlaceInv
<1>1. Len(order) \in Nat
  BY <1>0, OrderType
<1>2. CASE pc[t] \in {"first", "hold1"}
  <2>1. OnList(Wanted(t)) /\ Held(t) = {}
    BY <1>0, <1>2 DEF WalkInv, Wanted, Held
  <2> QED
    BY <2>1 DEF OnList
<1>3. CASE pc[t] \in {"second", "hold2"}
  <2>1. Wanted(t) = next[curr[t]] /\ Held(t) = {curr[t]} /\ OnList(curr[t])
    BY <1>0, <1>3 DEF WalkInv, Wanted, Held
  <2>2. PICK k \in 1 .. Len(order) - 1 :
           order[k] = curr[t] /\ order[k + 1] = next[curr[t]]
    BY <1>0, <1>3, <2>1, SuccessorOnList
  <2>3. k + 1 \in 1 .. Len(order)
    BY <1>1
  <2>4. \A j \in 1 .. Len(order) : order[j] = curr[t] => j < k + 1
    BY <1>0, <1>1, <2>2 DEF ListMatchesOrder
  <2> QED
    BY <2>1, <2>2, <2>3, <2>4
<1>4. CASE pc[t] = "third"
  <2>1. /\ Wanted(t) = next[next[curr[t]]] /\ OnList(curr[t])
        /\ Held(t) = {curr[t], next[curr[t]]} /\ next[curr[t]] # NULL
    BY <1>0, <1>4 DEF WalkInv, Wanted, Held
  <2>2. PICK k \in 1 .. Len(order) - 1 :
           order[k] = curr[t] /\ order[k + 1] = next[curr[t]]
    BY <1>0, <1>4, <2>1, SuccessorOnList
  <2>3. OnList(next[curr[t]])
    BY <1>0, <1>4, <2>1, SuccessorOnList
  <2>4. PICK i \in 1 .. Len(order) - 1 :
           order[i] = next[curr[t]] /\ order[i + 1] = next[next[curr[t]]]
    BY <1>0, <1>4, <2>1, <2>3, SuccessorOnList
  <2>5. i = k + 1 /\ i + 1 \in 1 .. Len(order)
    BY <1>0, <1>1, <2>2, <2>4 DEF ListMatchesOrder
  <2>6. \A j \in 1 .. Len(order) : order[j] \in Held(t) => j < i + 1
    BY <1>0, <1>1, <2>1, <2>2, <2>4, <2>5 DEF ListMatchesOrder
  <2> QED
    BY <2>1, <2>4, <2>5, <2>6
<1> QED
  BY <1>2, <1>3, <1>4 DEF Wanted

(* Of the threads in a circle take one that waits for the last node: who   *)
(* has that node would have to wait for one behind it.                     *)
LEMMA NoCircle == Inv => NoCircularWait
<1> SUFFICES ASSUME Inv, NEW T \in (SUBSET Workers) \ {{}},
                    \A t \in T : Wanted(t) # NULL /\ InTheWay(t) \cap T # {}
             PROVE  FALSE
  BY Zenon DEF NoCircularWait
<1>0. TypeOK /\ LockInv /\ ListMatchesOrder /\ T \subseteq Workers /\ T # {}
  <2>1. T \in SUBSET Workers /\ T \notin {{}}
    BY Zenon
  <2>2. T # {}
    BY <2>1, Zenon
  <2> QED
    BY <2>1, <2>2 DEF Inv
<1>1. Len(order) \in Nat /\ \A k \in 1 .. Len(order) : order[k] \in Node
  BY <1>0, OrderType
<1> DEFINE S == {k \in 1 .. Len(order) : \E t \in T : order[k] = Wanted(t)}
<1>2. S # {}
  <2>1. PICK t \in T : t \in Workers
    BY <1>0
  <2>2. Wanted(t) # NULL
    OBVIOUS
  <2>3. \E k \in 1 .. Len(order) : order[k] = Wanted(t)
    BY <2>1, <2>2, WaitsAhead
  <2> QED
    BY <2>3
<1>3. PICK m \in S : \A k \in S : k <= m
  BY <1>1, <1>2, LastOne
<1>4. PICK t \in T : order[m] = Wanted(t)
  OBVIOUS
<1>5. \A u \in T : u \notin sync[order[m]]
  <2> SUFFICES ASSUME NEW u \in T, u \in sync[order[m]] PROVE FALSE
    OBVIOUS
  <2>1. order[m] \in Held(u)
    BY <1>0, <1>1 DEF LockInv
  <2>2. PICK k \in 1 .. Len(order) :
           /\ order[k] = Wanted(u)
           /\ \A j \in 1 .. Len(order) : order[j] \in Held(u) => j < k
    BY WaitsAhead
  <2>3. m < k /\ k \in S
    BY <2>1, <2>2
  <2> QED
    BY <1>1, <1>3, <2>3
<1>6. ASSUME NEW s \in T, Wanted(s) = order[m], ~ (kind = "rw" /\ s \in Finders)
      PROVE  FALSE
  BY <1>5, <1>6 DEF InTheWay
<1>7. CASE kind = "rw" /\ t \in Finders
  <2>1. PICK s \in Swappers \cap T : Wanted(s) = order[m]
    BY <1>4, <1>5, <1>7 DEF InTheWay
  <2>2. s \notin Finders
    BY SwapListAssumption
  <2> QED
    BY <1>6, <2>1, <2>2
<1> QED
  BY <1>4, <1>6, <1>7

(* No set of threads ever waits in a circle for each other's locks, and no *)
(* thread locks a node twice or unlocks one it has not locked: walks that  *)
(* hold up to three locks, in an order that swaps keep changing, neither   *)
(* deadlock nor abort the program.                                         *)
THEOREM LocksSafe == Spec => []LockDiscipline
<1>1. Inv => LockDiscipline
  BY NoCircle DEF LockDiscipline, Inv
<1> QED
  BY <1>1, Invariance, PTL

-----------------------------------------------------------------------------

LEMMA StoreGuarded ==
  ASSUME Inv, [Next]_vars, NEW n \in Node, next'[n] # next[n]
  PROVE  \E s \in Swappers : sync[n] = {s} /\ pc[s] \in {"store1", "store2", "store3"}
<1> USE DEF Step, list
<1>0. TypeOK /\ LockInv /\ ListMatchesOrder /\ PlaceInv
  BY DEF Inv
<1>1. ASSUME next' = next PROVE FALSE
  BY <1>1
<1>2. ~ Create /\ ~ CreateFails /\ ~ UNCHANGED vars
  BY <1>1 DEF Create, CreateFails, vars
<1>3. \A f \in Finders : ~ Finder(f)
  BY <1>1 DEF Finder, FinderStart, FinderPass, FinderEnd, FinderFirst,
              FinderSecond, FinderLast, FinderCompare, FinderRelease
<1>4. PICK s \in Swappers : Swapper(s)
  BY <1>2, <1>3 DEF Next
<1>5. SwapStore1(s) \/ SwapStore2(s) \/ SwapStore3(s)
  BY <1>1, <1>4
  DEF Swapper, SwapCheck, SwapCheckNext, SwapChoose, SwapEnd, SwapFirst,
      SwapLast, SwapSecond, SwapTail, SwapThird, SwapLoad, SwapStoreCount,
      SwapRelease1, SwapRelease2, SwapRelease3, HoldFirst, HoldLast,
      HoldSecond, DropSecond, DropFirst
<1>6. /\ pc[s] \in {"store1", "store2", "store3"}
      /\ n \in {curr[s], curr2[s], curr3[s]}
  BY <1>0, <1>5 DEF SwapStore1, SwapStore2, SwapStore3, TypeOK
<1>7. n \in Held(s)
  BY <1>6 DEF Held
<1> QED
  BY <1>0, <1>6, <1>7 DEF LockInv, Workers

(* A node's next field only changes in one of the three stores of a swap,  *)
(* by the swapper that alone has the node locked.                          *)
THEOREM Guarded == Spec => NextIsGuarded
<1>1. Inv /\ [Next]_vars =>
        [\A n \in Node :
           next'[n] # next[n] =>
             \E s \in Swappers : /\ sync[n] = {s}
                                /\ pc[s] \in {"store1", "store2", "store3"}]_vars
  BY StoreGuarded
<1> QED
  BY <1>1, Invariance, PTL DEF Spec, NextIsGuarded

-----------------------------------------------------------------------------
(* The list as a shuffle. *)

LEMMA OrderOnlyBySwap ==
  ASSUME [Next]_vars, order' # order
  PROVE  \E s \in Swappers : SwapStore3(s)
<1> USE DEF Step, history
<1>1. ~ Create /\ ~ CreateFails /\ ~ UNCHANGED vars
  BY DEF Create, CreateFails, vars
<1>2. \A f \in Finders : ~ Finder(f)
  BY DEF Finder, FinderStart, FinderPass, FinderEnd, FinderFirst,
         FinderSecond, FinderLast, FinderCompare, FinderRelease
<1>3. PICK s \in Swappers : Swapper(s)
  BY <1>1, <1>2 DEF Next
<1> QED
  BY <1>3
  DEF Swapper, SwapCheck, SwapCheckNext, SwapChoose, SwapEnd, SwapFirst,
      SwapLast, SwapSecond, SwapTail, SwapThird, SwapStore1, SwapStore2,
      SwapLoad, SwapStoreCount, SwapRelease1, SwapRelease2, SwapRelease3,
      HoldFirst, HoldLast, HoldSecond, DropSecond, DropFirst

LEMMA SwapIsExchange ==
  ASSUME Inv, NEW s \in Swappers, SwapStore3(s)
  PROVE  Abstract!Next
<1>0. TypeOK /\ ListMatchesOrder /\ SwapInv(s)
  BY DEF Inv, PlaceInv, Workers
<1>1. PICK k \in 1 .. Len(order) : InRow(k, curr[s], curr2[s], curr3[s])
  BY <1>0 DEF SwapInv, SwapStore3, Step
<1>2. /\ order[k + 1] = curr2[s] /\ order[k + 2] = curr3[s]
      /\ k + 1 \in 2 .. Len(order) - 1 /\ (k + 1) + 1 = k + 2
      /\ k + 1 \in 1 .. Len(order) /\ k + 2 \in 1 .. Len(order)
  BY <1>0, <1>1, RowType, OrderType DEF InRow
<1>3. order = [j \in 1 .. Len(order) |-> order[j]]
  BY <1>0, SeqDef, LenProperties DEF TypeOK
<1>4. order' = [order EXCEPT ![k + 1] = order[k + 2], ![k + 2] = order[k + 1]]
  BY <1>0, <1>2, <1>3 DEF SwapStore3, Exchanged, ListMatchesOrder
<1>5. Abstract!Exchange(k + 1)
  BY <1>2, <1>4 DEF Abstract!Exchange
<1> QED
  BY <1>2, <1>5 DEF Abstract!Next

(* Seen from outside, the threads only ever exchange neighbours behind the *)
(* first node: the third store of a swap is such an exchange and no other  *)
(* step touches the order.                                                 *)
THEOREM Refinement == Spec => ImplementsShuffle
<1>1. Init => Abstract!Init
  BY DEF Init, Abstract!Init
<1>2. Inv /\ [Next]_vars => [Abstract!Next]_order
  BY OrderOnlyBySwap, SwapIsExchange
<1> QED
  BY <1>1, <1>2, Invariance, PTL DEF Spec, Abstract!Spec, ImplementsShuffle

-----------------------------------------------------------------------------
(* What a pass counts. *)

LEMMA ModAdd ==
  ASSUME NEW W \in Nat \ {0}, NEW a \in Nat, NEW b \in {0, 1}
  PROVE  ((a % W) + b) % W = (a + b) % W
OBVIOUS

LEMMA ModSmall ==
  ASSUME NEW W \in Nat \ {0}, NEW a \in 0 .. W - 1
  PROVE  a % W = a
OBVIOUS

(* The pairs of neighbours before the k-th node that compare, and what     *)
(* compareCount has to be when the pass has got that far.                  *)
PairsBefore(f, k) == {j \in 1 .. k - 1 : compare(f, order[j], order[j + 1])}
CountAt(f, k)     == (before[f] + Cardinality(PairsBefore(f, k))) % Width

LEMMA PairsNatural ==
  ASSUME NEW f, NEW k \in Nat
  PROVE  IsFiniteSet(PairsBefore(f, k)) /\ Cardinality(PairsBefore(f, k)) \in Nat
<1>1. IsFiniteSet(1 .. k - 1)
  BY FS_Interval
<1>2. PairsBefore(f, k) \subseteq 1 .. k - 1
  BY DEF PairsBefore
<1> QED
  BY <1>1, <1>2, FS_Subset, FS_CardinalityType

LEMMA OneMorePair ==
  ASSUME TypeOK, NEW f \in Finders, NEW k \in 1 .. Len(order) - 1, Len(order) \in Nat,
         NEW b \in {0, 1}, b = 1 <=> compare(f, order[k], order[k + 1]),
         compareCount[f] = CountAt(f, k)
  PROVE  (compareCount[f] + b) % Width = CountAt(f, k + 1)
<1>1. k \in Nat /\ k + 1 \in Nat /\ (k + 1) - 1 = k
  OBVIOUS
<1>2. Cardinality(PairsBefore(f, k + 1)) = Cardinality(PairsBefore(f, k)) + b
  <2>1. CASE compare(f, order[k], order[k + 1])
    <3>1. PairsBefore(f, k + 1) = PairsBefore(f, k) \cup {k}
      BY <1>1, <2>1 DEF PairsBefore
    <3>2. k \notin PairsBefore(f, k)
      BY DEF PairsBefore
    <3> QED
      BY <1>1, <2>1, <3>1, <3>2, PairsNatural, FS_AddElement
  <2>2. CASE ~ compare(f, order[k], order[k + 1])
    <3>1. PairsBefore(f, k + 1) = PairsBefore(f, k)
      BY <1>1, <2>2 DEF PairsBefore
    <3> QED
      BY <1>1, <2>2, <3>1, PairsNatural
  <2> QED
    BY <2>1, <2>2
<1>3. before[f] \in Nat /\ Width \in Nat \ {0}
  BY SwapListAssumption DEF TypeOK
<1>4. before[f] + Cardinality(PairsBefore(f, k)) \in Nat
  BY <1>1, <1>3, PairsNatural
<1> DEFINE c == Cardinality(PairsBefore(f, k))
<1>5. (((before[f] + c) % Width) + b) % Width = ((before[f] + c) + b) % Width
  BY <1>3, <1>4, ModAdd
<1>6. CountAt(f, k + 1) = (before[f] + (c + b)) % Width
  BY <1>2 DEF CountAt
<1>7. c \in Nat
  BY <1>1, PairsNatural
<1>8. before[f] + (c + b) = (before[f] + c) + b
  <2> HIDE DEF c
  <2> QED
    BY <1>3, <1>7
<1> QED
  BY <1>5, <1>6, <1>8 DEF CountAt

(* In the middle of a pass that no swap has disturbed the finder is at the *)
(* k-th node and has counted the pairs before it; in between releasing the *)
(* first and the second node of a pair the last one is still in reg.       *)
PassAt(f) ==
  calm[f] =>
    /\ pc[f] \in {"first", "second", "compare"} =>
         \E k \in 0 .. Len(order) :
           /\ IF curr[f] = NULL THEN k = Len(order) ELSE k # 0 /\ order[k] = curr[f]
           /\ compareCount[f] = CountAt(f, k)
    /\ pc[f] = "release" =>
         \E k \in 1 .. Len(order) :
           /\ order[k] = curr[f]
           /\ (compareCount[f] + reg[f]) % Width = CountAt(f, k)

PassInv == \A f \in Finders : PassAt(f)

LEMMA PassFrame ==
  ASSUME NEW f \in Finders, PassAt(f), calm'[f] => calm[f] /\ order' = order,
         pc'[f] \in {"first", "second", "compare", "release"} => pc'[f] = pc[f],
         curr'[f] = curr[f], reg'[f] = reg[f], compareCount'[f] = compareCount[f],
         before'[f] = before[f]
  PROVE  PassAt(f)'
<1> SUFFICES ASSUME calm'[f] PROVE PassAt(f)'
  BY DEF PassAt
<1>1. order' = order /\ calm[f]
  OBVIOUS
<1>2. \A k : CountAt(f, k)' = CountAt(f, k)
  BY <1>1 DEF CountAt, PairsBefore, compare
<1> QED
  BY <1>1, <1>2 DEF PassAt

LEMMA FinderKeepsPass ==
  ASSUME Inv, PassInv, NEW f \in Finders, Finder(f)
  PROVE  PassInv'
<1> USE DEF Step, list, counters, locals, history
<1>0. f \in Workers /\ TypeOK /\ ListMatchesOrder /\ LockInv /\ PlaceInv /\ WalkInv(f)
  BY DEF Workers, Inv, PlaceInv
<1>1. Len(order) \in Nat /\ Width \in Nat \ {0}
  BY <1>0, OrderType, SwapListAssumption
<1>2. \A g \in Finders \ {f} : PassAt(g)'
  <2> SUFFICES ASSUME NEW g \in Finders \ {f} PROVE PassAt(g)'
    OBVIOUS
  <2>1. /\ order' = order /\ calm'[g] = calm[g] /\ pc'[g] = pc[g] /\ curr'[g] = curr[g]
        /\ reg'[g] = reg[g] /\ compareCount'[g] = compareCount[g]
        /\ before'[g] = before[g]
    BY <1>0
    DEF Workers, TypeOK, Finder, FinderStart, FinderPass, FinderEnd, FinderFirst,
        FinderSecond, FinderLast, FinderCompare, FinderRelease
  <2> QED
    BY <2>1, PassFrame DEF PassInv
<1>3. PassAt(f)
  BY DEF PassInv
<1>4. CASE FinderStart(f) \/ FinderEnd(f)
  <2>1. pc'[f] \in {"done", "pass"}
    BY <1>0, <1>4 DEF FinderStart, FinderEnd, TypeOK
  <2> QED
    BY <1>2, <2>1 DEF PassInv, PassAt
<1>5. CASE FinderPass(f)
  <2>1. /\ pc'[f] = "first" /\ curr'[f] = first /\ before'[f] = compareCount[f]
        /\ order' = order /\ compareCount' = compareCount
    BY <1>0, <1>5 DEF FinderPass, TypeOK
  <2>2. \A k \in {0, 1} : CountAt(f, k)' = compareCount'[f]
    <3> SUFFICES ASSUME NEW k \in {0, 1} PROVE CountAt(f, k)' = compareCount'[f]
      OBVIOUS
    <3>1. PairsBefore(f, k)' = {}
      BY DEF PairsBefore
    <3>2. compareCount[f] \in 0 .. Width - 1
      BY <1>0 DEF TypeOK
    <3>3. (compareCount[f] + 0) % Width = compareCount[f]
      BY <1>1, <3>2, ModSmall
    <3> QED
      BY <2>1, <3>1, <3>3, FS_EmptySet DEF CountAt
  <2>3. IF first = NULL THEN Len(order) = 0 ELSE Len(order) # 0 /\ order[1] = first
    BY <1>0, <1>1, OrderType, EmptySeq DEF ListMatchesOrder, TypeOK
  <2>4. PassAt(f)'
    BY <1>1, <2>1, <2>2, <2>3 DEF PassAt
  <2> QED
    BY <1>2, <2>4 DEF PassInv
<1>6. CASE FinderFirst(f) \/ FinderSecond(f)
  <2>1. /\ UNCHANGED <<order, curr, reg, compareCount, before, calm>>
        /\ pc[f] \in {"first", "second"} /\ pc'[f] \in {"second", "compare"}
    BY <1>0, <1>6 DEF FinderFirst, FinderSecond, TypeOK
  <2>2. \A k : CountAt(f, k)' = CountAt(f, k)
    BY <2>1 DEF CountAt, PairsBefore, compare
  <2>3. PassAt(f)'
    BY <1>3, <2>1, <2>2 DEF PassAt
  <2> QED
    BY <1>2, <2>3 DEF PassInv
<1>7. CASE FinderLast(f)
  <2>1. /\ UNCHANGED <<order, compareCount, before, calm>>
        /\ pc[f] = "second" /\ pc'[f] = "first"
        /\ curr'[f] = NULL /\ next[curr[f]] = NULL
    BY <1>0, <1>7 DEF FinderLast, TypeOK
  <2>2. \A k : CountAt(f, k)' = CountAt(f, k)
    BY <2>1 DEF CountAt, PairsBefore, compare
  <2>3. curr[f] # NULL /\ curr[f] \in Held(f)
    BY <1>0, <2>1 DEF WalkInv, Held
  <2>4. \A k \in 1 .. Len(order) : order[k] = curr[f] => k = Len(order)
    BY <1>0, <1>1, <2>1, <2>3, HeldNext, OrderType DEF After
  <2>5. PassAt(f)'
    BY <1>1, <1>3, <2>1, <2>2, <2>3, <2>4 DEF PassAt
  <2> QED
    BY <1>2, <2>5 DEF PassInv
<1>8. CASE FinderCompare(f)
  <2>1. /\ UNCHANGED <<order, compareCount, before, calm>>
        /\ pc[f] = "compare" /\ pc'[f] = "release" /\ curr'[f] = next[curr[f]]
        /\ reg'[f] = IF compare(f, curr[f], next[curr[f]]) THEN 1 ELSE 0
    BY <1>0, <1>8 DEF FinderCompare, TypeOK
  <2> SUFFICES ASSUME calm[f] PROVE PassAt(f)'
    BY <1>2, <2>1 DEF PassInv, PassAt
  <2>2. \A k : CountAt(f, k)' = CountAt(f, k)
    BY <2>1 DEF CountAt, PairsBefore, compare
  <2>3. curr[f] # NULL /\ curr[f] \in Held(f) /\ next[curr[f]] # NULL
    BY <1>0, <2>1 DEF WalkInv, Held
  <2>4. PICK k \in 1 .. Len(order) :
           order[k] = curr[f] /\ compareCount[f] = CountAt(f, k)
    BY <1>1, <1>3, <2>1, <2>3 DEF PassAt
  <2>5. k \in 1 .. Len(order) - 1 /\ next[curr[f]] = order[k + 1]
    BY <1>0, <1>1, <2>1, <2>3, <2>4, HeldNext, OrderType DEF After
  <2>6. (compareCount[f] + reg'[f]) % Width = CountAt(f, k + 1)
    BY <1>0, <1>1, <2>1, <2>4, <2>5, OneMorePair
  <2>7. k + 1 \in 1 .. Len(order)
    BY <1>1, <2>5
  <2> QED
    BY <2>1, <2>2, <2>5, <2>6, <2>7 DEF PassAt
<1>9. CASE FinderRelease(f)
  <2>1. /\ UNCHANGED <<order, curr, before, calm>>
        /\ pc[f] = "release" /\ pc'[f] = "first"
        /\ compareCount'[f] = (compareCount[f] + reg[f]) % Width
    BY <1>0, <1>9 DEF FinderRelease, TypeOK
  <2>2. \A k : CountAt(f, k)' = CountAt(f, k)
    BY <2>1 DEF CountAt, PairsBefore, compare
  <2>3. curr[f] # NULL
    BY <1>0, <2>1 DEF WalkInv
  <2>4. PassAt(f)'
    BY <1>1, <1>3, <2>1, <2>2, <2>3 DEF PassAt
  <2> QED
    BY <1>2, <2>4 DEF PassInv
<1> QED
  BY <1>4, <1>5, <1>6, <1>7, <1>8, <1>9 DEF Finder

LEMMA OthersKeepPass ==
  ASSUME Inv, PassInv,
         \/ Create \/ CreateFails \/ UNCHANGED vars
         \/ \E s \in Swappers : Swapper(s)
  PROVE  PassInv'
<1> SUFFICES ASSUME NEW f \in Finders PROVE PassAt(f)'
  BY DEF PassInv
<1> USE DEF Step, list, counters, locals, history
<1>0. TypeOK /\ f \in Workers /\ f \notin Swappers
  BY SwapListAssumption DEF Inv, Workers
<1>1. CASE Create \/ CreateFails \/ UNCHANGED vars
  <2>1. /\ UNCHANGED <<order, curr, reg, compareCount, before, calm>>
        /\ pc'[f] = pc[f] \/ pc'[f] = "start"
    BY <1>0, <1>1 DEF Create, CreateFails, vars
  <2> QED
    BY <2>1, PassFrame DEF PassInv
<1>2. ASSUME NEW s \in Swappers, Swapper(s)
      PROVE  PassAt(f)'
  <2>1. s # f /\ s \in Workers
    BY <1>0 DEF Workers
  <2>2. /\ curr'[f] = curr[f] /\ reg'[f] = reg[f] /\ pc'[f] = pc[f]
        /\ compareCount' = compareCount /\ before' = before
        /\ calm'[f] => calm[f] /\ order' = order
    <3>1. CASE \/ SwapCheck(s) \/ SwapCheckNext(s) \/ SwapChoose(s) \/ SwapEnd(s)
               \/ SwapFirst(s) \/ SwapLast(s) \/ SwapSecond(s) \/ SwapTail(s)
      BY <1>0, <2>1, <3>1
      DEF TypeOK, SwapCheck, SwapCheckNext, SwapChoose, SwapEnd, SwapFirst, SwapLast,
          SwapSecond, SwapTail
    <3>2. CASE \/ SwapThird(s) \/ SwapStore1(s) \/ SwapStore2(s) \/ SwapStore3(s)
               \/ SwapLoad(s) \/ SwapStoreCount(s)
      BY <1>0, <2>1, <3>2
      DEF TypeOK, SwapThird, SwapStore1, SwapStore2, SwapStore3, SwapLoad,
          SwapStoreCount
    <3>3. CASE \/ SwapRelease1(s) \/ SwapRelease2(s) \/ SwapRelease3(s)
               \/ HoldFirst(s) \/ HoldLast(s) \/ HoldSecond(s)
               \/ DropSecond(s) \/ DropFirst(s)
      BY <1>0, <2>1, <3>3
      DEF TypeOK, SwapRelease1, SwapRelease2, SwapRelease3, HoldFirst, HoldLast,
          HoldSecond, DropSecond, DropFirst
    <3> QED
      BY <1>2, <3>1, <3>2, <3>3 DEF Swapper
  <2> QED
    BY <2>2, PassFrame DEF PassInv
<1> QED
  BY <1>1, <1>2

(* A pass during which nobody has swapped adds exactly the number of       *)
(* neighbours that compare, modulo the width of the counter.               *)
THEOREM PassExact == Spec => []UndisturbedPassIsExact
<1>1. Init => PassInv
  BY DEF Init, PassInv, PassAt, Workers
<1>2. Inv /\ PassInv /\ [Next]_vars => PassInv'
  BY FinderKeepsPass, OthersKeepPass DEF Next
<1>3. Inv /\ PassInv => UndisturbedPassIsExact
  <2> SUFFICES ASSUME Inv, PassInv, NEW f \in Finders,
                      pc[f] = "first", curr[f] = NULL, calm[f]
               PROVE  compareCount[f] = CountAt(f, Len(order))
    BY DEF UndisturbedPassIsExact, CountAt, PairsBefore
  <2> QED
    BY DEF PassInv, PassAt
<1> QED
  BY <1>1, <1>2, <1>3, Invariance, PTL DEF Spec
=============================================================================
