-------------------------- MODULE RacyQueueProofs --------------------------
(***************************************************************************)
(* The unsynchronised queue, for every capacity, every supply of memory    *)
(* blocks and every interleaving of the loads and stores: why its asserts  *)
(* hold although both threads write count without a lock, and why the      *)
(* reader gets the numbers in order although the list loses some.          *)
(***************************************************************************)
EXTENDS RacyQueue, TLAPS

(* From the test of count on: room was found, an element was found.        *)
Full  == {"fill", "first", "set_first", "set_next", "advance", "load_count"}
Empty == {"first", "value", "next", "set_first", "free", "load_count"}

(* count and the copies of it in the registers are within the bounds, with *)
(* room for one more or one less where a test has found it.  Each thread   *)
(* moves count only away from the bound the other has tested, also when it *)
(* writes back a value that is out of date.  queueDestroy leaves count     *)
(* alone, up to the free of the queue.                                     *)
CountInv ==
  /\ count \in 0 .. maxCount
  /\ wcount \in 0 .. maxCount
  /\ rcount \in 0 .. maxCount
  /\ wpc \in Full => count < maxCount
  /\ wpc = "store_count" => wcount < maxCount
  /\ rpc \in Empty => count > 0
  /\ rpc = "store_count" => rcount > 0
  /\ status = "assertion_failed" => wpc = "abort"

Inv == /\ maxCount \in Int
       /\ maxCount >= 0 => CountInv

-----------------------------------------------------------------------------

LEMMA Initially == Init => Inv
  BY RacyQueueAssumption DEF Init, Inv, CountInv, Full, Empty

LEMMA WriterKeepsInv == Inv /\ Writer => Inv'
<1> SUFFICES ASSUME Inv, Writer PROVE Inv'
  OBVIOUS
<1>0. maxCount' = maxCount
  BY DEF Writer, AddAssert, AddTest, AddFill, AddNoMemory, AddSeesEmpty,
     AddSetFirst, AddSeesNodes, AddSetNext, AddAdvance, AddLoadCount,
     AddStoreCount, DestroyFirst, DestroyNext, DestroyFree, DestroyQueue,
     Abort, queue
<1> SUFFICES ASSUME maxCount \in Nat, CountInv PROVE CountInv'
  BY <1>0 DEF Inv
<1> USE <1>0 DEF CountInv, Full, Empty, WMove, WStep, DStep, WDies, queue, adding, reader
<1>1. CASE AddAssert
  BY <1>1 DEF AddAssert
<1>2. CASE AddTest
  BY <1>2 DEF AddTest
<1>3. CASE AddFill \/ AddNoMemory
  BY <1>3 DEF AddFill, AddNoMemory
<1>4. CASE AddSeesEmpty \/ AddSetFirst \/ AddSeesNodes
  BY <1>4 DEF AddSeesEmpty, AddSetFirst, AddSeesNodes
<1>5. CASE AddSetNext \/ AddAdvance
  BY <1>5 DEF AddSetNext, AddAdvance
<1>6. CASE AddLoadCount
  BY <1>6 DEF AddLoadCount
<1>7. CASE AddStoreCount
  BY <1>7 DEF AddStoreCount
<1>8. CASE DestroyFirst \/ DestroyNext \/ DestroyFree \/ DestroyQueue \/ Abort
  BY <1>8 DEF DestroyFirst, DestroyNext, DestroyFree, DestroyQueue, Abort
<1> QED
  BY <1>1, <1>2, <1>3, <1>4, <1>5, <1>6, <1>7, <1>8 DEF Writer

LEMMA ReaderKeepsInv == Inv /\ Reader => Inv'
<1> SUFFICES ASSUME Inv, Reader PROVE Inv'
  OBVIOUS
<1>0. maxCount' = maxCount
  BY DEF Reader, GetAssert, GetTest, GetFirst, GetValue, GetNext,
     GetSetFirst, GetFree, GetLoadCount, GetStoreCount, GetCheck,
     GetFromFreedQueue, queue
<1> SUFFICES ASSUME maxCount \in Nat, CountInv PROVE CountInv'
  BY <1>0 DEF Inv
<1> USE <1>0 DEF CountInv, Full, Empty, RStep, QStep, RDies, queue, writer, adding
<1>1. CASE GetAssert
  BY <1>1 DEF GetAssert
<1>2. CASE GetTest
  BY <1>2 DEF GetTest
<1>3. CASE GetFirst \/ GetValue \/ GetNext
  BY <1>3 DEF GetFirst, GetValue, GetNext
<1>4. CASE GetSetFirst \/ GetFree
  BY <1>4 DEF GetSetFirst, GetFree
<1>5. CASE GetLoadCount
  BY <1>5 DEF GetLoadCount
<1>6. CASE GetStoreCount
  BY <1>6 DEF GetStoreCount
<1>7. CASE GetCheck \/ GetFromFreedQueue
  BY <1>7 DEF GetCheck, GetFromFreedQueue
<1> QED
  BY <1>1, <1>2, <1>3, <1>4, <1>5, <1>6, <1>7 DEF Reader

LEMMA NextKeepsInv == Inv /\ [Next]_vars => Inv'
<1> SUFFICES ASSUME Inv, UNCHANGED vars PROVE Inv'
  BY WriterKeepsInv, ReaderKeepsInv DEF Next
<1> QED
  BY DEF vars, queue, writer, adding, reader, Inv, CountInv, Full, Empty

-----------------------------------------------------------------------------

(* queue.c:67 and :99: whatever the two threads do to count between each   *)
(* other's loads and stores, no assert fails for a capacity from 0 on as   *)
(* long as there is a queue.  Only the reader's can, and only between      *)
(* free(q) and abort() of a writer that is out of memory.                  *)
THEOREM AssertionsHold == Spec => []AssertsHold
<1>1. Inv => AssertsHold
  BY DEF Inv, CountInv, AssertsHold
<1> QED
  BY Initially, NextKeepsInv, <1>1, PTL DEF Spec

-----------------------------------------------------------------------------
(* The list under the race. *)

(* The writer's block is filled in and not linked yet; it is linked.       *)
Filled == {"first", "set_first", "set_next"}
Linked == {"advance", "load_count", "store_count"}

(* The number linked last. *)
Newest == IF wpc \in Linked THEN i ELSE i - 1

(* The blocks in use hold different numbers, those behind a block the next *)
(* number, and no block but the writer's new one is ahead of Newest.       *)
BlocksInv ==
  /\ \A n \in heap :
       /\ val[n] \in Nat
       /\ val[n] <= Newest \/ (wpc \in Filled /\ n = new)
       /\ next[n] # NULL => next[n] \in heap /\ val[next[n]] = val[n] + 1
  /\ \A m, n \in heap : val[m] = val[n] => m = n

(* Nobody can reach the writer's block before it is linked.  Behind a last *)
(* that was freed under the writer, the block is linked into nothing: then *)
(* the list is empty, and first stays NULL.                                *)
FilledInv ==
  /\ wpc \in Filled =>
       /\ new \in heap /\ val[new] = i /\ next[new] = NULL
       /\ first # new /\ \A n \in heap : next[n] # new
       /\ rpc = "free" => tmp # new
  /\ wpc \in {"call", "test", "fill"} => new = NULL
  /\ wpc = "set_first" => first = NULL /\ last = new
  /\ wpc \in Linked /\ new \in heap => val[new] = i
  /\ wpc = "advance" =>
       /\ last \in Node
       /\ last \in heap => next[last] = new
       /\ last \notin heap /\ next[last] # WILD =>
            /\ next[last] = new /\ first = NULL /\ new \in heap
            /\ rpc = "free" => tmp # new

(* last is the block of the newest number, or it dangles; while it dangles *)
(* the list is empty.                                                      *)
LastInv ==
  /\ wpc \notin {"set_first", "advance"} =>
       /\ last \in heap /\ last # new => val[last] = Newest
       /\ last \in Node /\ last \notin heap  => first = NULL
  /\ wpc = "first" /\ last = new => first = NULL
  /\ wpc = "set_next" => last # new

(* What the reader has loaded is still so when it is used: the writer      *)
(* changes first only when it is NULL, and next of a block only once.      *)
FirstInv ==
  /\ first \in heap \cup {NULL}
  /\ rpc = "value" => tmp \in {NULL, first}
  /\ rpc \in {"next", "set_first"} => tmp = first /\ first # NULL
  /\ rpc = "set_first" => rnext \in {NULL, next[first]}
  /\ rpc = "free" => tmp \in heap /\ tmp # first /\ \A n \in heap : next[n] # tmp
  /\ first # NULL => \A n \in heap : next[n] = first => rpc = "free" /\ n = tmp

(* The reader has moved first past the block it has taken its number from. *)
Taken == {"free", "load_count", "store_count", "check"}

(* The numbers still in the list are above the one the reader has got.     *)
NumbersInv ==
  /\ expected <= Newest + 1
  /\ rpc \in {"next", "set_first"} \cup Taken => expected <= got /\ got <= Newest
  /\ rpc \in {"next", "set_first", "free"} => got = val[tmp]
  /\ first # NULL => IF rpc \in Taken THEN got < val[first] ELSE expected <= val[first]

(* The list as the two threads leave it, until it is destroyed. *)
ListInv ==
  /\ wpc \notin Destroying
  /\ TypeOK /\ BlocksInv /\ FilledInv /\ LastInv /\ FirstInv /\ NumbersInv

(* What is left when it is being destroyed: first is still the block whose *)
(* next the reader is about to read.                                       *)
ReadInv ==
  /\ rpc = "value" => tmp \in {NULL, first}
  /\ rpc = "next" => tmp = first /\ tmp \in Node

(* The strengthening of TypeOK and NumbersInOrder. *)
PtrInv == TypeOK /\ ReadInv /\ (wpc \notin Destroying => ListInv)

-----------------------------------------------------------------------------

(* What the allocator leaves in a block is no block, no number, not NULL.  *)
LEMMA PointerFacts ==
  /\ NULL \notin Node /\ WILD \notin Node /\ WILD \notin Nat /\ NULL # WILD
  /\ \A S : S \subseteq Node => NULL \notin S /\ WILD \notin S
BY RacyQueueAssumption

(* The steps that only read or write the counters and the registers: the   *)
(* list is as it was.                                                      *)
LEMMA CountingAddKeepsList ==
  ASSUME ListInv, AddAssert \/ AddTest \/ AddLoadCount \/ AddStoreCount
  PROVE  ListInv'
<1> USE PointerFacts
<1> USE DEF ListInv, Destroying, AddAssert, AddTest, AddLoadCount, AddStoreCount,
            WMove, WStep, WDies, queue, adding, reader
<1>1. TypeOK'
  BY DEF TypeOK, WriterPoints, ReaderPoints, Pointers
<1>2. BlocksInv'
  BY DEF BlocksInv, Newest, Linked, Filled, TypeOK
<1>3. FilledInv'
  BY DEF FilledInv, Filled, Linked, TypeOK
<1>4. LastInv'
  BY DEF LastInv, Newest, Linked, TypeOK, FilledInv
<1>5. FirstInv'
  BY DEF FirstInv, TypeOK
<1>6. NumbersInv'
  BY DEF NumbersInv, Newest, Linked, Taken, TypeOK
<1> QED
  BY <1>1, <1>2, <1>3, <1>4, <1>5, <1>6

LEMMA CountingGetKeepsList ==
  ASSUME ListInv, GetAssert \/ GetTest \/ GetLoadCount \/ GetStoreCount
  PROVE  ListInv'
<1> USE PointerFacts
<1> USE DEF ListInv, Destroying, GetAssert, GetTest, GetLoadCount, GetStoreCount,
            QStep, RStep, RDies, queue, writer, adding
<1>1. TypeOK'
  BY DEF TypeOK, WriterPoints, ReaderPoints, Pointers
<1>2. BlocksInv'
  BY DEF BlocksInv, Newest, Linked, Filled, TypeOK
<1>3. FilledInv'
  BY DEF FilledInv, Filled, Linked, TypeOK
<1>4. LastInv'
  BY DEF LastInv, Newest, Linked, TypeOK
<1>5. FirstInv'
  BY DEF FirstInv, TypeOK
<1>6. NumbersInv'
  BY DEF NumbersInv, Newest, Linked, Taken, TypeOK
<1> QED
  BY <1>1, <1>2, <1>3, <1>4, <1>5, <1>6

(* The steps of queueAdd that touch the list. *)

LEMMA AddFillKeepsList ==
  ASSUME ListInv, AddFill
  PROVE  ListInv'
<1> USE PointerFacts
<1> USE DEF ListInv, Destroying, AddFill, WMove, WStep, queue, adding, reader
<1>1. TypeOK'
  BY DEF TypeOK, WriterPoints, ReaderPoints, Pointers
<1>2. BlocksInv'
  BY DEF BlocksInv, Newest, Linked, Filled, TypeOK, FirstInv, FilledInv
<1>3. FilledInv'
  BY DEF FilledInv, Filled, Linked, TypeOK, FirstInv, BlocksInv
<1>4. LastInv'
  BY DEF LastInv, Newest, Linked, TypeOK, FirstInv, BlocksInv, FilledInv,
         Filled
<1>5. FirstInv'
  BY DEF FirstInv, TypeOK, BlocksInv, FilledInv, Filled, Linked
<1>6. NumbersInv'
  BY DEF NumbersInv, Newest, Linked, Taken, TypeOK, FirstInv, BlocksInv,
         FilledInv, Filled
<1> QED
  BY <1>1, <1>2, <1>3, <1>4, <1>5, <1>6

LEMMA AddSeesEmptyKeepsList ==
  ASSUME ListInv, AddSeesEmpty
  PROVE  ListInv'
<1> USE PointerFacts
<1> USE DEF ListInv, Destroying, AddSeesEmpty, WMove, WStep, queue, adding, reader
<1>1. TypeOK'
  BY DEF TypeOK, WriterPoints, ReaderPoints, Pointers
<1>2. BlocksInv'
  BY DEF BlocksInv, Newest, Linked, Filled, TypeOK, FilledInv
<1>3. FilledInv'
  BY DEF FilledInv, Filled, Linked, TypeOK
<1>4. LastInv'
  BY DEF LastInv, Newest, Linked, TypeOK, FilledInv, Filled
<1>5. FirstInv'
  BY DEF FirstInv, TypeOK, FilledInv, Filled
<1>6. NumbersInv'
  BY DEF NumbersInv, Newest, Linked, Taken, TypeOK, FilledInv, Filled
<1> QED
  BY <1>1, <1>2, <1>3, <1>4, <1>5, <1>6

LEMMA AddSetFirstKeepsList ==
  ASSUME ListInv, AddSetFirst
  PROVE  ListInv'
<1> USE PointerFacts
<1> USE DEF ListInv, Destroying, AddSetFirst, WMove, WStep, queue, adding, reader
<1>1. TypeOK'
  BY DEF TypeOK, WriterPoints, ReaderPoints, Pointers
<1>2. BlocksInv'
  BY DEF BlocksInv, Newest, Linked, Filled, TypeOK, FilledInv, FirstInv,
         NumbersInv
<1>3. FilledInv'
  BY DEF FilledInv, Filled, Linked, TypeOK, FirstInv, BlocksInv, NumbersInv,
         Newest
<1>4. LastInv'
  BY DEF LastInv, Newest, Linked, TypeOK, FilledInv, Filled, FirstInv,
         BlocksInv, NumbersInv
<1>5. FirstInv'
  BY DEF FirstInv, TypeOK, FilledInv, Filled, BlocksInv, NumbersInv, Newest
<1>6. NumbersInv'
  BY DEF NumbersInv, Newest, Linked, Taken, TypeOK, FilledInv, Filled,
         FirstInv, BlocksInv
<1> QED
  BY <1>1, <1>2, <1>3, <1>4, <1>5, <1>6

LEMMA AddSeesNodesKeepsList ==
  ASSUME ListInv, AddSeesNodes
  PROVE  ListInv'
<1> USE PointerFacts
<1> USE DEF ListInv, Destroying, AddSeesNodes, WMove, WStep, queue, adding, reader
<1>1. TypeOK'
  BY DEF TypeOK, WriterPoints, ReaderPoints, Pointers
<1>2. BlocksInv'
  BY DEF BlocksInv, Newest, Linked, Filled, TypeOK
<1>3. FilledInv'
  BY DEF FilledInv, Filled, Linked, TypeOK, LastInv
<1>4. LastInv'
  BY DEF LastInv, Newest, Linked, TypeOK, Filled
<1>5. FirstInv'
  BY DEF FirstInv, TypeOK
<1>6. NumbersInv'
  BY DEF NumbersInv, Newest, Linked, Taken, TypeOK
<1> QED
  BY <1>1, <1>2, <1>3, <1>4, <1>5, <1>6

LEMMA AddSetNextKeepsList ==
  ASSUME ListInv, AddSetNext
  PROVE  ListInv'
<1> USE PointerFacts
<1> USE DEF ListInv, Destroying, AddSetNext, WMove, WStep, WDies, queue, adding, reader
<1>1. TypeOK'
  BY DEF TypeOK, WriterPoints, ReaderPoints, Pointers, FilledInv, Filled,
         FirstInv, BlocksInv, LastInv, Newest, Linked
<1>2. BlocksInv'
  BY DEF BlocksInv, Newest, Linked, Filled, TypeOK, FilledInv, FirstInv,
         LastInv
<1>3. FilledInv'
  BY DEF FilledInv, Filled, Linked, TypeOK, FirstInv, BlocksInv, LastInv,
         Newest
<1>4. LastInv'
  BY DEF LastInv, Newest, Linked, TypeOK, FilledInv, Filled, FirstInv,
         BlocksInv
<1>5. FirstInv'
  BY DEF FirstInv, TypeOK, FilledInv, Filled, BlocksInv, LastInv, Newest,
         Linked
<1>6. NumbersInv'
  BY DEF NumbersInv, Newest, Linked, Taken, TypeOK, FilledInv, Filled,
         FirstInv, BlocksInv, LastInv
<1> QED
  BY <1>1, <1>2, <1>3, <1>4, <1>5, <1>6

LEMMA AddAdvanceKeepsList ==
  ASSUME ListInv, AddAdvance
  PROVE  ListInv'
<1> USE PointerFacts
<1> USE DEF ListInv, Destroying, AddAdvance, WMove, WStep, queue, adding, reader
<1>1. TypeOK'
  BY DEF TypeOK, WriterPoints, ReaderPoints, Pointers, FilledInv, Filled,
         FirstInv, BlocksInv, Newest, Linked
<1>2. BlocksInv'
  BY DEF BlocksInv, Newest, Linked, Filled, TypeOK, FilledInv, FirstInv
<1>3. FilledInv'
  BY DEF FilledInv, Filled, Linked, TypeOK, FirstInv, BlocksInv, Newest
<1>4. LastInv'
  BY DEF LastInv, Newest, Linked, TypeOK, FilledInv, Filled, FirstInv,
         BlocksInv
<1>5. FirstInv'
  BY DEF FirstInv, TypeOK, FilledInv, Filled, BlocksInv, Newest, Linked
<1>6. NumbersInv'
  BY DEF NumbersInv, Newest, Linked, Taken, TypeOK, FilledInv, Filled,
         FirstInv, BlocksInv
<1> QED
  BY <1>1, <1>2, <1>3, <1>4, <1>5, <1>6

(* The steps of queueGet that touch the list, and the check of the number. *)

LEMMA GetFirstKeepsList ==
  ASSUME ListInv, GetFirst
  PROVE  ListInv'
<1> USE PointerFacts
<1> USE DEF ListInv, Destroying, GetFirst, QStep, RStep, queue, writer, adding
<1>1. TypeOK'
  BY DEF TypeOK, WriterPoints, ReaderPoints, Pointers, FilledInv, Filled,
         FirstInv, BlocksInv, Newest, Linked, NumbersInv, Taken, LastInv
<1>2. BlocksInv'
  BY DEF BlocksInv, Newest, Linked, Filled, TypeOK, FilledInv, FirstInv,
         NumbersInv, Taken, LastInv
<1>3. FilledInv'
  BY DEF FilledInv, Filled, Linked, TypeOK, FirstInv, BlocksInv, Newest,
         NumbersInv, Taken, LastInv
<1>4. LastInv'
  BY DEF LastInv, Newest, Linked, TypeOK, FilledInv, Filled, FirstInv,
         BlocksInv, NumbersInv, Taken
<1>5. FirstInv'
  BY DEF FirstInv, TypeOK, FilledInv, Filled, BlocksInv, Newest, Linked,
         NumbersInv, Taken, LastInv
<1>6. NumbersInv'
  BY DEF NumbersInv, Newest, Linked, Taken, TypeOK, FilledInv, Filled,
         FirstInv, BlocksInv, LastInv
<1> QED
  BY <1>1, <1>2, <1>3, <1>4, <1>5, <1>6

LEMMA GetValueKeepsList ==
  ASSUME ListInv, GetValue
  PROVE  ListInv'
<1> USE PointerFacts
<1> USE DEF ListInv, Destroying, GetValue, QStep, RStep, RDies, queue, writer, adding
<1>1. TypeOK'
  BY DEF TypeOK, WriterPoints, ReaderPoints, Pointers, FilledInv, Filled,
         FirstInv, BlocksInv, Newest, Linked, NumbersInv, Taken, LastInv
<1>2. BlocksInv'
  BY DEF BlocksInv, Newest, Linked, Filled, TypeOK, FilledInv, FirstInv,
         NumbersInv, Taken, LastInv
<1>3. FilledInv'
  BY DEF FilledInv, Filled, Linked, TypeOK, FirstInv, BlocksInv, Newest,
         NumbersInv, Taken, LastInv
<1>4. LastInv'
  BY DEF LastInv, Newest, Linked, TypeOK, FilledInv, Filled, FirstInv,
         BlocksInv, NumbersInv, Taken
<1>5. FirstInv'
  BY DEF FirstInv, TypeOK, FilledInv, Filled, BlocksInv, Newest, Linked,
         NumbersInv, Taken, LastInv
<1>6. NumbersInv'
  BY DEF NumbersInv, Newest, Linked, Taken, TypeOK, FilledInv, Filled,
         FirstInv, BlocksInv, LastInv
<1> QED
  BY <1>1, <1>2, <1>3, <1>4, <1>5, <1>6

LEMMA GetNextKeepsList ==
  ASSUME ListInv, GetNext
  PROVE  ListInv'
<1> USE PointerFacts
<1> USE DEF ListInv, Destroying, GetNext, QStep, RStep, queue, writer, adding
<1>1. TypeOK'
  BY DEF TypeOK, WriterPoints, ReaderPoints, Pointers, FirstInv
<1>2. BlocksInv'
  BY DEF BlocksInv, Newest, Linked, Filled, TypeOK
<1>3. FilledInv'
  BY DEF FilledInv, Filled, Linked, TypeOK
<1>4. LastInv'
  BY DEF LastInv, Newest, Linked, TypeOK
<1>5. FirstInv'
  BY DEF FirstInv, TypeOK
<1>6. NumbersInv'
  BY DEF NumbersInv, Newest, Linked, Taken, TypeOK, FirstInv
<1> QED
  BY <1>1, <1>2, <1>3, <1>4, <1>5, <1>6

LEMMA GetSetFirstKeepsList ==
  ASSUME ListInv, GetSetFirst
  PROVE  ListInv'
<1> USE PointerFacts
<1> USE DEF ListInv, Destroying, GetSetFirst, QStep, RStep, queue, writer, adding
<1>1. TypeOK'
  BY DEF TypeOK, WriterPoints, ReaderPoints, Pointers, FilledInv, Filled,
         FirstInv, BlocksInv, Newest, Linked, NumbersInv, Taken, LastInv
<1>2. BlocksInv'
  BY DEF BlocksInv, Newest, Linked, Filled, TypeOK, FilledInv, FirstInv,
         NumbersInv, Taken, LastInv
<1>3. FilledInv'
  BY DEF FilledInv, Filled, Linked, TypeOK, FirstInv, BlocksInv, Newest,
         NumbersInv, Taken, LastInv
<1>4. LastInv'
  BY DEF LastInv, Newest, Linked, TypeOK, FilledInv, Filled, FirstInv,
         BlocksInv, NumbersInv, Taken
<1>5. FirstInv'
  BY DEF FirstInv, TypeOK, FilledInv, Filled, BlocksInv, Newest, Linked,
         NumbersInv, Taken, LastInv
<1>6. NumbersInv'
  BY DEF NumbersInv, Newest, Linked, Taken, TypeOK, FilledInv, Filled,
         FirstInv, BlocksInv, LastInv
<1> QED
  BY <1>1, <1>2, <1>3, <1>4, <1>5, <1>6

LEMMA GetFreeKeepsList ==
  ASSUME ListInv, GetFree
  PROVE  ListInv'
<1> USE PointerFacts
<1> USE DEF ListInv, Destroying, GetFree, Free, QStep, RStep, queue, writer, adding
<1>1. TypeOK'
  BY DEF TypeOK, WriterPoints, ReaderPoints, Pointers, FilledInv, Filled,
         FirstInv, BlocksInv, Newest, Linked, NumbersInv, Taken, LastInv
<1>2. BlocksInv'
  BY DEF BlocksInv, Newest, Linked, Filled, TypeOK, FilledInv, FirstInv,
         NumbersInv, Taken, LastInv
<1>3. FilledInv'
  BY DEF FilledInv, Filled, Linked, TypeOK, FirstInv, BlocksInv, Newest,
         NumbersInv, Taken, LastInv
<1>4. LastInv'
  <2>1. /\ rpc = "free" /\ rpc' = "load_count"
        /\ heap' = heap \ {tmp} /\ val' = [val EXCEPT ![tmp] = WILD]
        /\ UNCHANGED <<first, last, i, wpc, new>>
    OBVIOUS
  <2>2. tmp \in heap /\ heap \subseteq Node /\ val \in [Node -> Int \cup {WILD}]
    BY <2>1 DEF FirstInv, TypeOK
  <2>3. first # NULL => /\ val[first] > val[tmp] /\ val[first] <= Newest
                        /\ val[first] \in Nat /\ val[tmp] \in Nat /\ Newest \in Int
    BY <2>1, <2>2 DEF FirstInv, NumbersInv, BlocksInv, FilledInv, Taken, TypeOK, Newest
  <2>4. last = tmp /\ wpc \notin {"set_first", "advance"} => first = NULL
    <3>1. last = tmp /\ last # new /\ wpc \notin {"set_first", "advance"} =>
            val[tmp] = Newest
      BY <2>2 DEF LastInv
    <3>2. last = tmp /\ last = new /\ wpc \in Linked => val[tmp] = Newest
      BY <2>2 DEF FilledInv, Newest
    <3>3. last = tmp /\ last = new => wpc \in Linked
      BY <2>1, <2>2, PointerFacts DEF FilledInv, TypeOK, WriterPoints, Linked, Filled
    <3> QED
      BY <2>3, <3>1, <3>2, <3>3
  <2>5. Newest' = Newest
    BY <2>1 DEF Newest
  <2> QED
    BY <2>1, <2>2, <2>4, <2>5 DEF LastInv
<1>5. FirstInv'
  BY DEF FirstInv, TypeOK, FilledInv, Filled, BlocksInv, Newest, Linked,
         NumbersInv, Taken, LastInv
<1>6. NumbersInv'
  BY DEF NumbersInv, Newest, Linked, Taken, TypeOK, FilledInv, Filled,
         FirstInv, BlocksInv, LastInv
<1> QED
  BY <1>1, <1>2, <1>3, <1>4, <1>5, <1>6

LEMMA GetCheckKeepsList ==
  ASSUME ListInv, GetCheck
  PROVE  ListInv'
<1> USE PointerFacts
<1> USE DEF ListInv, Destroying, GetCheck, QStep, RStep, queue, writer, adding
<1>1. TypeOK'
  BY DEF TypeOK, WriterPoints, ReaderPoints, Pointers
<1>2. BlocksInv'
  BY DEF BlocksInv, Newest, Linked, Filled, TypeOK
<1>3. FilledInv'
  BY DEF FilledInv, Filled, Linked, TypeOK
<1>4. LastInv'
  BY DEF LastInv, Newest, Linked, TypeOK
<1>5. FirstInv'
  BY DEF FirstInv, TypeOK
<1>6. NumbersInv'
  BY DEF NumbersInv, Newest, Linked, Taken, TypeOK, FirstInv, BlocksInv
<1> QED
  BY <1>1, <1>2, <1>3, <1>4, <1>5, <1>6

-----------------------------------------------------------------------------

LEMMA ListInitially == Init => ListInv
<1> SUFFICES ASSUME Init PROVE ListInv
  OBVIOUS
<1> USE DEF Init
<1>1. TypeOK
  BY PointerFacts DEF TypeOK, WriterPoints, ReaderPoints, Pointers
<1>2. BlocksInv /\ FirstInv
  BY DEF BlocksInv, FirstInv
<1>3. FilledInv /\ LastInv
  BY PointerFacts DEF FilledInv, LastInv, Filled, Linked
<1>4. NumbersInv
  BY DEF NumbersInv, Newest, Linked, Taken
<1> QED
  BY <1>1, <1>2, <1>3, <1>4 DEF ListInv, Destroying

(* The steps on a list that is being destroyed, and the first of them. *)
Undoing == AddNoMemory \/ DestroyFirst \/ DestroyNext \/ DestroyFree
             \/ DestroyQueue \/ Abort

LEMMA ListGivesPtr == ListInv => PtrInv
<1> SUFFICES ASSUME ListInv PROVE ReadInv
  BY DEF PtrInv, ListInv
<1> QED
  BY DEF ListInv, FirstInv, TypeOK, ReadInv

LEMMA DestroyingAddKeepsPtr ==
  ASSUME PtrInv, Writer, wpc \in Destroying \/ Undoing
  PROVE  PtrInv'
<1>1. Undoing
  BY DEF Writer, Undoing, Destroying, AddAssert, AddTest, AddFill, AddSeesEmpty,
         AddSetFirst, AddSeesNodes, AddSetNext, AddAdvance, AddLoadCount,
         AddStoreCount, WStep, WDies, WMove
<1>2. wpc' \in Destroying
  BY <1>1 DEF Undoing, Destroying, AddNoMemory, DestroyFirst, DestroyNext,
              DestroyFree, DestroyQueue, Abort, WStep, DStep, WMove
<1>3. TypeOK'
  BY <1>1, <1>2, PointerFacts
  DEF PtrInv, TypeOK, WriterPoints, ReaderPoints, Pointers, Undoing, AddNoMemory,
      DestroyFirst, DestroyNext, DestroyFree, DestroyQueue, Abort, Free,
      WStep, DStep, WMove, queue, adding, reader
<1>4. ReadInv'
  BY <1>1
  DEF PtrInv, ReadInv, Undoing, AddNoMemory, DestroyFirst, DestroyNext,
      DestroyFree, DestroyQueue, Abort, queue, reader
<1> QED
  BY <1>2, <1>3, <1>4 DEF PtrInv

LEMMA DestroyingGetKeepsPtr ==
  ASSUME PtrInv, Reader, wpc \in Destroying
  PROVE  PtrInv'
<1> USE PointerFacts DEF queue, writer, adding, QStep, RStep, RDies
<1>1. wpc' = wpc
  BY DEF Reader, GetAssert, GetTest, GetFirst, GetValue, GetNext, GetSetFirst,
         GetFree, GetLoadCount, GetStoreCount, GetCheck, GetFromFreedQueue
<1>2. TypeOK'
  <2> USE <1>1 DEF PtrInv, TypeOK, WriterPoints, ReaderPoints, Pointers
  <2>1. CASE GetAssert \/ GetTest \/ GetFirst
    BY <2>1 DEF GetAssert, GetTest, GetFirst
  <2>6. CASE GetValue
    <3>1. CASE tmp \in Node
      <4>1. val[tmp] \in Nat \cup {WILD}
        BY <3>1
      <4> QED
        BY <2>6, <3>1, <4>1 DEF GetValue
    <3>2. CASE tmp \notin Node
      BY <2>6, <3>2 DEF GetValue
    <3> QED
      BY <3>1, <3>2
  <2>2. CASE GetNext
    BY <2>2 DEF GetNext, ReadInv
  <2>3. CASE GetSetFirst \/ GetFree
    BY <2>3 DEF GetSetFirst, GetFree, Free
  <2>4. CASE GetLoadCount \/ GetStoreCount
    BY <2>4 DEF GetLoadCount, GetStoreCount
  <2>5. CASE GetCheck \/ GetFromFreedQueue
    BY <2>5 DEF GetCheck, GetFromFreedQueue
  <2> QED
    BY <2>1, <2>2, <2>3, <2>4, <2>5, <2>6 DEF Reader
<1>3. ReadInv'
  BY DEF PtrInv, ReadInv, Reader, GetAssert, GetTest, GetFirst, GetValue, GetNext,
         GetSetFirst, GetFree, GetLoadCount, GetStoreCount, GetCheck,
         GetFromFreedQueue
<1> QED
  BY <1>1, <1>2, <1>3 DEF PtrInv

LEMMA NextKeepsPtr == PtrInv /\ [Next]_vars => PtrInv'
<1> SUFFICES ASSUME PtrInv, [Next]_vars PROVE PtrInv'
  OBVIOUS
<1>1. ListInv' => PtrInv'
  BY ListGivesPtr, PTL
<1>2. CASE Writer
  <2>1. CASE wpc \in Destroying \/ Undoing
    BY <1>2, <2>1, DestroyingAddKeepsPtr
  <2>2. CASE ListInv /\ ~ Undoing
    BY <1>1, <1>2, <2>2, CountingAddKeepsList, AddFillKeepsList,
       AddSeesEmptyKeepsList, AddSetFirstKeepsList, AddSeesNodesKeepsList,
       AddSetNextKeepsList, AddAdvanceKeepsList DEF Writer, Undoing
  <2> QED
    BY <2>1, <2>2 DEF PtrInv
<1>3. CASE Reader
  <2>1. CASE wpc \in Destroying
    BY <1>3, <2>1, DestroyingGetKeepsPtr
  <2>2. CASE ListInv
    <3>1. ~ GetFromFreedQueue
      BY <2>2 DEF ListInv, Destroying, GetFromFreedQueue
    <3> QED
      BY <1>1, <1>3, <2>2, <3>1, CountingGetKeepsList, GetFirstKeepsList,
         GetValueKeepsList, GetNextKeepsList, GetSetFirstKeepsList,
         GetFreeKeepsList, GetCheckKeepsList DEF Reader
  <2> QED
    BY <2>1, <2>2 DEF PtrInv
<1>4. CASE UNCHANGED vars
  BY <1>4 DEF vars, queue, writer, adding, reader, PtrInv, ReadInv, ListInv, TypeOK,
              BlocksInv, FilledInv, LastInv, FirstInv, NumbersInv, Newest
<1> QED
  BY <1>2, <1>3, <1>4 DEF Next

LEMMA PtrInvariance == Spec => []PtrInv
<1>1. Init => PtrInv
  BY ListInitially, ListGivesPtr
<1> QED
  BY <1>1, NextKeepsPtr, PTL DEF Spec

(* The variables keep their types whatever the race does to the list: in   *)
(* particular, up to the queueDestroy of a writer that is out of memory,   *)
(* the reader never goes on with what the allocator left in a freed block, *)
(* neither as the block it takes nor as a number (queue.c:105-108).        *)
THEOREM TypeCorrect == Spec => []TypeOK
<1>1. PtrInv => TypeOK
  BY DEF PtrInv
<1> QED
  BY <1>1, PtrInvariance, PTL

(* Numbers get lost in the race, but as long as the writer gets its memory *)
(* the reader never gets freed memory, a number twice, or one before       *)
(* another that was written earlier.                                       *)
THEOREM OrderIsKept == Spec => []NumbersInOrder
<1>1. PtrInv => NumbersInOrder
  BY PointerFacts
  DEF PtrInv, ListInv, TypeOK, NumbersInv, NumbersInOrder, Taken, Newest, Linked
<1> QED
  BY <1>1, PtrInvariance, PTL
=============================================================================
