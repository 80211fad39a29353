----------------------------- MODULE MutexQueue -----------------------------
(***************************************************************************)
(* lab2/code/2.2/mutex: the queue whose operations run under one           *)
(* pthread mutex.  A full or an empty queue makes the operation return 0   *)
(* and the caller try again at once.                                       *)
(*                                                                         *)
(* queueAdd:  lock -> test -> link -> tally -> unlock, or test -> refuse   *)
(* queueGet:  lock -> test -> take -> tally -> unlock -> check, or refuse  *)
(* queuePrintStats:  lock -> the five copies -> unlock -> print            *)
(***************************************************************************)
EXTENDS QueueProgram

CONSTANT NoOne   \* the mutex is not locked

ASSUME MutexQueueAssumption == NoOne \notin Workers

VARIABLE mutex   \* the thread that holds the mutex

vars == <<queueVars, programVars, mutex>>

Init ==
  /\ QueueInit
  /\ ProgramInit
  /\ mutex = NoOne

(* execMutexlock and execMutexUnlock.  The calls themselves cannot fail:   *)
(* the mutex is initialised, of the default kind and unlocked by its owner.*)
Lock(t, to) ==
  /\ Step(t, "lock", to)
  /\ mutex = NoOne
  /\ mutex' = t

Unlock(t, from, to) ==
  /\ Step(t, from, to)
  /\ mutex' = NoOne

-----------------------------------------------------------------------------
(* queueAdd and the writer's loop. *)

AddLock ==
  /\ stats["addAttempts"] < MaxAttempts
  /\ Lock("writer", "test")
  /\ UNCHANGED <<queueVars, locals, status>>

(* Mutant of AddTest: one element too many. *)
AddTestTooLate ==
  /\ stats' = Bump("addAttempts")
  /\ \/ count <= maxCount /\ Step("writer", "test", "link") /\ UNCHANGED status
     \/ count > maxCount /\ Die("writer", "test", "assertion_failed")
  /\ UNCHANGED <<maxCount, count, listVars, locals, mutex>>

AddTest ==
  /\ stats' = Bump("addAttempts")
  /\ \/ count < maxCount /\ Step("writer", "test", "link") /\ UNCHANGED status
     \/ count = maxCount /\ Step("writer", "test", "refuse") /\ UNCHANGED status
     \/ count > maxCount /\ Die("writer", "test", "assertion_failed")
  /\ UNCHANGED <<maxCount, count, listVars, locals, mutex>>

AddLink ==
  /\ Step("writer", "link", "tally")
  /\ \E n \in Node \ heap : Link(n, i)
  /\ UNCHANGED <<maxCount, count, stats, locals, status, mutex>>

(* malloc returns NULL: queueDestroy(q) cancels the monitor, finds the     *)
(* mutex locked, by this thread, and frees every node and q itself.  What  *)
(* chain and val say from then on is of the list that was.                 *)
AddNoMemory ==
  /\ Step("writer", "link", "abort")
  /\ heap' = {}
  /\ UNCHANGED <<maxCount, count, stats, first, last, next, val, chain, locals,
                 status, mutex>>

AddAbort ==
  /\ Die("writer", "abort", "out_of_memory")
  /\ UNCHANGED <<queueVars, locals, mutex>>

(* Before the abort, another thread may go for the mutex of the freed q.   *)
(* That is undefined: what the program does then is not modelled further.  *)
(* A cancelled monitor that ends instead, and a thread that was waiting    *)
(* already and goes on waiting, take no step.                              *)
LocksFreedQueue(t) ==
  /\ pc["writer"] = "abort"
  /\ Die(t, "lock", "use_after_destroy")
  /\ UNCHANGED <<queueVars, locals, mutex>>

AddTally ==
  /\ Step("writer", "tally", "unlock")
  /\ TallyAdd
  /\ UNCHANGED <<maxCount, listVars, locals, status, mutex>>

AddUnlock ==
  /\ Unlock("writer", "unlock", "lock")
  /\ WriterAdvances
  /\ UNCHANGED <<queueVars, expected, got, snap, status>>

(* Mutant of AddRefused: the writer does not look at queueAdd's result. *)
AddRefusedAdvances ==
  /\ Unlock("writer", "refuse", "lock")
  /\ WriterAdvances
  /\ UNCHANGED <<queueVars, expected, got, snap, status>>

AddRefused ==
  /\ Unlock("writer", "refuse", "lock")
  /\ UNCHANGED <<queueVars, locals, status>>

Writer == \/ AddLock \/ AddTest \/ AddLink \/ AddNoMemory \/ AddAbort
          \/ AddTally \/ AddUnlock \/ AddRefused

-----------------------------------------------------------------------------
(* queueGet and the reader's loop. *)

GetLock ==
  /\ stats["getAttempts"] < MaxAttempts
  /\ Lock("reader", "test")
  /\ UNCHANGED <<queueVars, locals, status>>

(* Mutant of GetTest: queueGet waits for an element with the mutex locked. *)
GetTestWaits ==
  /\ stats' = Bump("getAttempts")
  /\ \/ count > 0 /\ Step("reader", "test", "take") /\ UNCHANGED status
     \/ count = 0 /\ Step("reader", "test", "test") /\ UNCHANGED status
     \/ count < 0 /\ Die("reader", "test", "assertion_failed")
  /\ UNCHANGED <<maxCount, count, listVars, locals, mutex>>

GetTest ==
  /\ stats' = Bump("getAttempts")
  /\ \/ count > 0 /\ Step("reader", "test", "take") /\ UNCHANGED status
     \/ count = 0 /\ Step("reader", "test", "refuse") /\ UNCHANGED status
     \/ count < 0 /\ Die("reader", "test", "assertion_failed")
  /\ UNCHANGED <<maxCount, count, listVars, locals, mutex>>

GetTake ==
  /\ Step("reader", "take", "tally")
  /\ got' = val[first]
  /\ Unlink
  /\ UNCHANGED <<maxCount, count, stats, i, expected, snap, status, mutex>>

GetTally ==
  /\ Step("reader", "tally", "unlock")
  /\ TallyGet
  /\ UNCHANGED <<maxCount, listVars, locals, status, mutex>>

GetUnlock ==
  /\ Unlock("reader", "unlock", "check")
  /\ UNCHANGED <<queueVars, locals, status>>

GetRefused ==
  /\ Unlock("reader", "refuse", "lock")
  /\ UNCHANGED <<queueVars, locals, status>>

GetCheck ==
  /\ Step("reader", "check", "lock")
  /\ ReaderChecks
  /\ UNCHANGED <<queueVars, i, got, snap, status, mutex>>

Reader == \/ GetLock \/ GetTest \/ GetTake \/ GetTally
          \/ GetUnlock \/ GetRefused \/ GetCheck
          \/ LocksFreedQueue("reader")

-----------------------------------------------------------------------------
(* queuePrintStats and the monitor's loop. *)

(* Mutant of StatsLock: the statistics are copied without the mutex. *)
StatsUnlocked ==
  /\ Step("monitor", "lock", Fields[1])
  /\ UNCHANGED <<queueVars, locals, status, mutex>>

StatsLock ==
  /\ Lock("monitor", Fields[1])
  /\ UNCHANGED <<queueVars, locals, status>>

StatsRead ==
  /\ \E k \in 1 .. 5 :
       /\ Step("monitor", Fields[k], IF k = 5 THEN "unlock" ELSE Fields[k + 1])
       /\ ReadField(k)
  /\ UNCHANGED <<queueVars, i, expected, got, status, mutex>>

StatsUnlock ==
  /\ Unlock("monitor", "unlock", "print")
  /\ UNCHANGED <<queueVars, locals, status>>

(* printf, sleep(1), and the next call; the locals go out of scope. *)
StatsPrint ==
  /\ Step("monitor", "print", "lock")
  /\ snap' = NoSnap
  /\ UNCHANGED <<queueVars, i, expected, got, status, mutex>>

Monitor == \/ StatsLock \/ StatsRead \/ StatsUnlock \/ StatsPrint
           \/ LocksFreedQueue("monitor")

-----------------------------------------------------------------------------

Main == MainStep("lock") /\ UNCHANGED <<queueVars, locals, mutex>>

Next == \/ Main \/ Writer \/ Reader \/ Monitor
        \/ Halted /\ UNCHANGED vars

Spec == Init /\ [][Next]_vars

(* The scheduler runs every thread that can run.  A thread that polls the  *)
(* mutex has no claim to it: nothing makes glibc hand it over fairly.      *)
FairSpec == Spec /\ WF_vars(Main) /\ WF_vars(Writer)
                 /\ WF_vars(Reader) /\ WF_vars(Monitor)

-----------------------------------------------------------------------------
(* The control points inside the critical section. *)
InsidePoints ==
  {"test", "link", "take", "tally", "unlock", "refuse", "abort"} \cup FieldNames

WriterPoints  == {"unborn", "lock", "test", "link", "tally", "unlock", "refuse",
                  "abort"}
ReaderPoints  == {"unborn", "lock", "test", "take", "tally", "unlock",
                  "refuse", "check"}
MonitorPoints == {"unborn", "lock", "unlock", "print"} \cup FieldNames
MainPoints    == Workers \cup {"join"}

ControlTypeOK ==
  /\ pc \in [Threads -> UNION {WriterPoints, ReaderPoints, MonitorPoints, MainPoints}]
  /\ pc["writer"]  \in WriterPoints
  /\ pc["reader"]  \in ReaderPoints
  /\ pc["monitor"] \in MonitorPoints
  /\ pc["main"]    \in MainPoints

(* Every variable has the type its declaration in the code gives it, and   *)
(* every thread is at a control point of its routine.                      *)
TypeOK ==
  /\ QueueTypeOK
  /\ ProgramTypeOK
  /\ ControlTypeOK
  /\ mutex \in Workers \cup {NoOne}

(* queue-threads' check never fires: whatever the interleaving, a value    *)
(* queueGet returned is the one the reader expects next (main-mutex.c:54). *)
ReaderSeesSequence == pc["reader"] = "check" => got = expected

(* The list is a proper list between any two steps of the operations, and  *)
(* count lags behind it only between the link and the tally of an add or   *)
(* the unlink and the tally of a get.  Out of memory, queueDestroy frees   *)
(* the nodes and the list ends there.                                      *)
ListAgreesWithCount ==
  /\ pc["writer"] # "abort" => ListIntact
  /\ count = Len(chain) - (IF pc["writer"] = "tally" THEN 1 ELSE 0)
                        + (IF pc["reader"] = "tally" THEN 1 ELSE 0)

(* The statistics line the monitor prints is of one moment: the current    *)
(* size is what was added less what was taken, and no operation has        *)
(* succeeded more often than it was attempted.                             *)
PrintedStatsConsistent ==
  pc["monitor"] = "print" =>
    /\ Ahead(snap["addCount"], snap["getCount"], snap["count"])
    /\ snap["addCount"] <= snap["addAttempts"]
    /\ snap["getCount"] <= snap["getAttempts"]
    /\ maxCount >= 0 => snap["count"] <= maxCount

(* If an assert fails, it is that of queueAdd, for a capacity below 0,     *)
(* which main takes from atoi(argv[1]) unchecked (main-mutex.c:96).  The   *)
(* assert of queueGet (queue-mutex-impl.c:135) never fails: no reader that *)
(* has the mutex finds a count below 0.                                    *)
AssertOnlyForNegativeCapacity ==
  status = "assertion_failed" => maxCount < 0 /\ pc["writer"] = "test"

(* The mutex is never held for ever: no path through an operation leaves   *)
(* it locked, and nothing inside a critical section waits.                 *)
MutexIsReleased ==
  \A t \in Workers :
    mutex = t ~> (mutex # t \/ status # "running")

(* If the lock serves every thread again and again, numbers arrive again   *)
(* and again, for every capacity that has room for one.                    *)
DeliveryIfLockFair ==
  (/\ maxCount > 0
   /\ [](status = "running")
   /\ \A t \in Workers : []<>(mutex = t))
  => []<>(pc["reader"] = "check")

(* The mutex queue implements the bounded queue. *)
Fifo == INSTANCE BoundedFifo WITH
          cap <- maxCount, buf <- contents, put <- accepted, taken <- delivered

(* Every step adds the next number at the end, takes one from the front,   *)
(* or leaves the abstract queue as it is; a full queue accepts nothing and *)
(* an empty one delivers nothing (queueAdd, queueGet).                     *)
ImplementsFifo == Fifo!Spec
=============================================================================
