------------------------------ MODULE RacyQueue ------------------------------
(***************************************************************************)
(* lab2/code/2.1: the queue without any synchronisation, one writer and    *)
(* one reader.  A step is one access to memory the other thread may access *)
(* too, in the order of the source: the Makefile asks for no optimisation. *)
(* Accesses to what only one thread uses (last, the statistics) belong to  *)
(* the step before or after them.                                          *)
(***************************************************************************)
EXTENDS Integers

CONSTANTS
  Node,         \* the blocks malloc can hand out
  NULL,         \* the null pointer
  WILD,         \* what free leaves in a block: no number and no address
  Capacities,   \* the values atoi(argv[1]) may give to maxCount
  MaxAttempts   \* bound: calls of queueAdd

ASSUME RacyQueueAssumption ==
  /\ NULL \notin Node /\ WILD \notin Node \cup Nat /\ NULL # WILD
  /\ Capacities \subseteq Int
  /\ MaxAttempts \in Nat

VARIABLES
  maxCount, count, first, last, next, val, heap,
  addAttempts,      \* bounds the run; the other statistics are left out
  wpc, i, new, wcount,          \* writer: control, locals, register
  curr, victim,                 \* writer: currNode and tmp of queueDestroy
  rpc, expected, tmp, rnext, got, rcount,
  status

queue  == <<maxCount, count, first, last, next, val, heap, addAttempts>>
adding == <<i, new, wcount>>
writer == <<wpc, adding, curr, victim>>
reader == <<rpc, expected, tmp, rnext, got, rcount>>
vars   == <<queue, writer, reader, status>>

Init ==
  /\ maxCount \in Capacities
  /\ count = 0
  /\ first = NULL
  /\ last = NULL
  /\ next = [n \in Node |-> NULL]
  /\ val = [n \in Node |-> 0]
  /\ heap = {}
  /\ addAttempts = 0
  /\ wpc = "call" /\ i = 0 /\ new = NULL /\ wcount = 0
  /\ curr = NULL /\ victim = NULL
  /\ rpc = "call" /\ expected = 0 /\ tmp = NULL /\ rnext = NULL /\ got = 0
  /\ rcount = 0
  /\ status = "running"

(* A step of queueAdd, of queueDestroy, of the writer at all. *)
WMove(from, to) == status = "running" /\ wpc = from /\ wpc' = to
WStep(from, to) == WMove(from, to) /\ UNCHANGED <<curr, victim>>
DStep(from, to) == WMove(from, to) /\ UNCHANGED adding

(* A step of the reader; one that uses q, before q is freed. *)
RStep(from, to) == status = "running" /\ rpc = from /\ rpc' = to
QStep(from, to) == wpc # "abort" /\ RStep(from, to)

(* The thread at from takes the whole process down. *)
WDies(from, why) == WStep(from, from) /\ status' = why
RDies(from, why) == RStep(from, from) /\ status' = why

(* free(n): the allocator writes its own data over both fields of the      *)
(* block.                                                                  *)
Free(n) ==
  /\ heap' = heap \ {n}
  /\ val' = [val EXCEPT ![n] = WILD]
  /\ next' = [next EXCEPT ![n] = WILD]

-----------------------------------------------------------------------------
(* queueAdd and the writer's loop. *)

AddAssert ==
  /\ addAttempts < MaxAttempts
  /\ addAttempts' = addAttempts + 1
  /\ \/ count <= maxCount /\ WStep("call", "test") /\ UNCHANGED status
     \/ count > maxCount /\ WDies("call", "assertion_failed")
  /\ UNCHANGED <<maxCount, count, first, last, next, val, heap>>
  /\ UNCHANGED <<adding, reader>>

(* Mutant of AddTest: room is assumed, as the assert has just passed. *)
AddTestAssumed ==
  /\ WStep("test", "fill")
  /\ UNCHANGED <<queue, adding, reader, status>>

AddTest ==
  /\ \/ count = maxCount /\ WStep("test", "call")
     \/ count # maxCount /\ WStep("test", "fill")
  /\ UNCHANGED <<queue, adding, reader, status>>

AddFill ==
  /\ WStep("fill", "first")
  /\ \E n \in Node \ heap :
       /\ heap' = heap \cup {n}
       /\ val' = [val EXCEPT ![n] = i]
       /\ next' = [next EXCEPT ![n] = NULL]
       /\ new' = n
  /\ UNCHANGED <<maxCount, count, first, last, addAttempts, i, wcount, reader, status>>

(* malloc fails: queueDestroy, below, and abort. *)
AddNoMemory ==
  /\ WStep("fill", "destroy")
  /\ UNCHANGED <<queue, adding, reader, status>>

(* if (!q->first): the list was empty, and q->last is set at once. *)
AddSeesEmpty ==
  /\ first = NULL
  /\ WStep("first", "set_first")
  /\ last' = new
  /\ UNCHANGED <<maxCount, count, first, next, val, heap, addAttempts>>
  /\ UNCHANGED <<adding, reader, status>>

AddSetFirst ==
  /\ WStep("set_first", "load_count")
  /\ first' = new
  /\ UNCHANGED <<maxCount, count, last, next, val, heap, addAttempts>>
  /\ UNCHANGED <<adding, reader, status>>

AddSeesNodes ==
  /\ first # NULL
  /\ WStep("first", "set_next")
  /\ UNCHANGED <<queue, adding, reader, status>>

(* Mutant of AddSetNext: the new node becomes the first. *)
AddSetNextAtFront ==
  /\ WStep("set_next", "load_count")
  /\ next' = [next EXCEPT ![new] = first]
  /\ first' = new
  /\ UNCHANGED <<maxCount, count, last, val, heap, addAttempts>>
  /\ UNCHANGED <<adding, reader, status>>

(* q->last->next = new: the node behind last may be freed memory, which    *)
(* takes the store; an address that is none does not.                      *)
AddSetNext ==
  /\ \/ /\ last \in Node
        /\ WStep("set_next", "advance")
        /\ next' = [next EXCEPT ![last] = new]
        /\ UNCHANGED status
     \/ /\ last \notin Node
        /\ WDies("set_next", "segmentation_fault")
        /\ UNCHANGED next
  /\ UNCHANGED <<maxCount, count, first, last, val, heap, addAttempts>>
  /\ UNCHANGED <<adding, reader>>

(* q->last = q->last->next *)
AddAdvance ==
  /\ WStep("advance", "load_count")
  /\ last' = next[last]
  /\ UNCHANGED <<maxCount, count, first, next, val, heap, addAttempts>>
  /\ UNCHANGED <<adding, reader, status>>

(* q->count++ *)
AddLoadCount ==
  /\ WStep("load_count", "store_count")
  /\ wcount' = count
  /\ UNCHANGED <<queue, i, new, reader, status>>

AddStoreCount ==
  /\ WStep("store_count", "call")
  /\ count' = wcount + 1
  /\ i' = i + 1
  /\ new' = NULL
  /\ wcount' = 0
  /\ UNCHANGED <<maxCount, first, last, next, val, heap, addAttempts, reader, status>>

(* queueDestroy under a reader that goes on: what it walks along, the      *)
(* reader frees and takes out of the list at the same time.                *)

DestroyFirst ==
  /\ DStep("destroy", "walk")
  /\ curr' = first
  /\ UNCHANGED <<queue, victim, reader, status>>

DestroyNext ==
  /\ curr # NULL
  /\ \/ /\ curr \in Node
        /\ DStep("walk", "free")
        /\ victim' = curr
        /\ curr' = next[curr]
        /\ UNCHANGED status
     \/ /\ curr \notin Node
        /\ DStep("walk", "walk")
        /\ status' = "segmentation_fault"
        /\ UNCHANGED <<curr, victim>>
  /\ UNCHANGED <<queue, reader>>

(* The allocator may notice that the block is free already, or not. *)
DestroyFree ==
  /\ DStep("free", "walk")
  /\ Free(victim)
  /\ victim' = NULL
  /\ \/ UNCHANGED status
     \/ victim \notin heap /\ status' = "double_free"
  /\ UNCHANGED <<maxCount, count, first, last, addAttempts, curr, reader>>

(* free(q): from here on the reader uses freed memory as its queue. *)
DestroyQueue ==
  /\ curr = NULL
  /\ DStep("walk", "abort")
  /\ UNCHANGED <<queue, curr, victim, reader, status>>

Abort ==
  /\ DStep("abort", "abort")
  /\ status' = "out_of_memory"
  /\ UNCHANGED <<queue, curr, victim, reader>>

Writer == \/ AddAssert \/ AddTest \/ AddFill \/ AddNoMemory
          \/ AddSeesEmpty \/ AddSetFirst \/ AddSeesNodes \/ AddSetNext
          \/ AddAdvance \/ AddLoadCount \/ AddStoreCount
          \/ DestroyFirst \/ DestroyNext \/ DestroyFree \/ DestroyQueue \/ Abort

-----------------------------------------------------------------------------
(* queueGet and the reader's loop. *)

GetAssert ==
  /\ \/ count >= 0 /\ QStep("call", "test") /\ UNCHANGED status
     \/ count < 0 /\ QStep("call", "call") /\ status' = "assertion_failed"
  /\ UNCHANGED <<queue, writer, expected, tmp, rnext, got, rcount>>

GetTest ==
  /\ \/ count = 0 /\ QStep("test", "call")
     \/ count # 0 /\ QStep("test", "first")
  /\ UNCHANGED <<queue, writer, expected, tmp, rnext, got, rcount, status>>

GetFirst ==
  /\ QStep("first", "value")
  /\ tmp' = first
  /\ UNCHANGED <<queue, writer, expected, rnext, got, rcount, status>>

GetValue ==
  /\ \/ tmp \in Node /\ RStep("value", "next") /\ got' = val[tmp] /\ UNCHANGED status
     \/ tmp \notin Node /\ RDies("value", "segmentation_fault") /\ UNCHANGED got
  /\ UNCHANGED <<queue, writer, expected, tmp, rnext, rcount>>

(* Mutant of GetNext: free(tmp) comes before first->next is read. *)
GetNextAfterFree ==
  /\ QStep("next", "set_first")
  /\ Free(tmp)
  /\ rnext' = WILD
  /\ UNCHANGED <<maxCount, count, first, last, addAttempts, writer>>
  /\ UNCHANGED <<expected, tmp, got, rcount, status>>

(* q->first = q->first->next; first is still tmp, as the writer sets it    *)
(* only when it has seen it NULL.                                          *)
GetNext ==
  /\ QStep("next", "set_first")
  /\ rnext' = next[first]
  /\ UNCHANGED <<queue, writer, expected, tmp, got, rcount, status>>

GetSetFirst ==
  /\ QStep("set_first", "free")
  /\ first' = rnext
  /\ UNCHANGED <<maxCount, count, last, next, val, heap, addAttempts, writer>>
  /\ UNCHANGED <<expected, tmp, rnext, got, rcount, status>>

(* Only queueDestroy can have freed the block before. *)
GetFree ==
  /\ RStep("free", "load_count")
  /\ Free(tmp)
  /\ \/ UNCHANGED status
     \/ tmp \notin heap /\ status' = "double_free"
  /\ UNCHANGED <<maxCount, count, first, last, addAttempts, writer>>
  /\ UNCHANGED <<expected, tmp, rnext, got, rcount>>

(* q->count-- *)
GetLoadCount ==
  /\ QStep("load_count", "store_count")
  /\ rcount' = count
  /\ UNCHANGED <<queue, writer, expected, tmp, rnext, got, status>>

GetStoreCount ==
  /\ QStep("store_count", "check")
  /\ count' = rcount - 1
  /\ tmp' = NULL /\ rnext' = NULL /\ rcount' = 0
  /\ UNCHANGED <<maxCount, first, last, next, val, heap, addAttempts, writer>>
  /\ UNCHANGED <<expected, got, status>>

GetCheck ==
  /\ RStep("check", "call")
  /\ expected' = IF got = WILD THEN WILD ELSE got + 1
  /\ UNCHANGED <<queue, writer, tmp, rnext, got, rcount, status>>

(* q is freed: its fields hold anything, and what follows is undefined.  A *)
(* count below 0 is one of the values that queueGet's assert may read.     *)
GetFromFreedQueue ==
  /\ wpc = "abort"
  /\ \/ \E p \in {"call", "test", "first", "next", "set_first", "load_count",
                  "store_count"} : RDies(p, "use_after_free")
     \/ RDies("call", "assertion_failed")
  /\ UNCHANGED <<queue, writer, expected, tmp, rnext, got, rcount>>

Reader == \/ GetAssert \/ GetTest \/ GetFirst \/ GetValue \/ GetNext
          \/ GetSetFirst \/ GetFree \/ GetLoadCount \/ GetStoreCount \/ GetCheck
          \/ GetFromFreedQueue

-----------------------------------------------------------------------------

Halted == status # "running"

Next == \/ Writer
        \/ Reader
        \/ Halted /\ UNCHANGED vars

Spec == Init /\ [][Next]_vars

-----------------------------------------------------------------------------

Destroying   == {"destroy", "walk", "free", "abort"}
WriterPoints == {"call", "test", "fill", "first", "set_first", "set_next",
                 "advance", "load_count", "store_count"} \cup Destroying
ReaderPoints == {"call", "test", "first", "value", "next", "set_first", "free",
                 "load_count", "store_count", "check"}
Pointers == Node \cup {NULL, WILD}

(* Every variable has its declared type; a freed block holds anything, but *)
(* until the writer destroys the queue the reader follows no such pointer  *)
(* and takes no such number (queue.c:105-108).                             *)
TypeOK ==
  /\ maxCount \in Capacities
  /\ count \in Int
  /\ first \in Pointers
  /\ last \in Pointers
  /\ next \in [Node -> Pointers]
  /\ val \in [Node -> Nat \cup {WILD}]
  /\ heap \subseteq Node
  /\ addAttempts \in Nat
  /\ wpc \in WriterPoints /\ i \in Nat /\ new \in Node \cup {NULL}
  /\ wcount \in Int
  /\ curr \in Pointers /\ victim \in Node \cup {NULL}
  /\ rpc \in ReaderPoints /\ expected \in Nat \cup {WILD}
  /\ tmp \in Pointers /\ rnext \in Pointers
  /\ got \in Nat \cup {WILD} /\ rcount \in Int
  /\ status \in {"running", "assertion_failed", "out_of_memory", "double_free",
                 "segmentation_fault", "use_after_free"}
  /\ wpc \notin Destroying => tmp # WILD /\ got # WILD /\ expected # WILD

(* Both asserts (queue.c:67 and :99) hold under every race on count: a     *)
(* lost update of the other thread leaves it on the safe side of the test  *)
(* this thread has made.  Two ways to fail are left, a negative capacity   *)
(* and, after a failed malloc (queue.c:74-78), a reader whose assert looks *)
(* into the queue between its free and the abort.                          *)
AssertsHold == status = "assertion_failed" => maxCount < 0 \/ wpc = "abort"

(* The race loses numbers, but until the writer, out of memory, destroys   *)
(* the list under the reader, what the reader gets is a number that was    *)
(* written, not freed memory, and comes after the one it got before.       *)
NumbersInOrder ==
  wpc \notin Destroying /\
  rpc \in {"next", "set_first", "free", "load_count", "store_count", "check"}
    => got \in Nat /\ expected <= got /\ got <= i
=============================================================================
