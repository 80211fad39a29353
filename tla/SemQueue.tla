------------------------------ MODULE SemQueue ------------------------------
(***************************************************************************)
(* lab2/code/2.2/semaphore: semFull lets the writer in, semEmpty the       *)
(* reader, and each posts the other's semaphore; queuePrintStats takes no  *)
(* lock.  A queueAdd that finds the queue full, and a queueGet that finds  *)
(* it empty, destroys the queue and returns 0.                             *)
(*                                                                         *)
(* queueAdd:  wait -> lock -> test -> link -> tally -> unlock -> post      *)
(* queueGet:  wait -> lock -> test -> take -> tally -> unlock -> post      *)
(*            -> check                                                     *)
(* or, from test:  refuse -> refuse post -> destroy                        *)
(***************************************************************************)
EXTENDS QueueProgram

CONSTANT NoOne   \* the mutex is not locked

ASSUME SemQueueAssumption == NoOne \notin Workers

VARIABLES
  mutex,
  semEmpty, semFull,   \* the values of the two semaphores
  destroyed            \* queueDestroy has freed the queue

vars == <<queueVars, programVars, mutex, semEmpty, semFull, destroyed>>
sems == <<semEmpty, semFull>>

Init ==
  /\ QueueInit
  /\ ProgramInit
  /\ mutex = NoOne
  /\ semEmpty = 0
  /\ semFull = 1
  /\ destroyed = FALSE

(* A step that touches the queue, which must be there for it. *)
Access(t, from, to) == ~ destroyed /\ Step(t, from, to)

Lock(t, to) ==
  /\ Access(t, "lock", to)
  /\ mutex = NoOne
  /\ mutex' = t
  /\ UNCHANGED <<queueVars, locals, status, sems, destroyed>>

Unlock(t, from, to) ==
  /\ Access(t, from, to)
  /\ mutex' = NoOne
  /\ UNCHANGED <<queueVars, locals, status, sems, destroyed>>

(* queueDestroy: the monitor is cancelled and the nodes and q are freed.   *)
Destroy(t) ==
  /\ Access(t, "destroy", "wait")
  /\ destroyed' = TRUE
  /\ heap' = {}
  /\ UNCHANGED <<maxCount, count, stats, first, last, next, val, chain>>
  /\ UNCHANGED <<locals, status, mutex, sems>>

-----------------------------------------------------------------------------
(* queueAdd and the writer's loop. *)

AddWait ==
  /\ stats["addAttempts"] < MaxAttempts
  /\ Access("writer", "wait", "lock")
  /\ semFull > 0
  /\ semFull' = semFull - 1
  /\ UNCHANGED <<queueVars, locals, status, mutex, semEmpty, destroyed>>

AddLock == Lock("writer", "test")

(* Mutant of AddTest: the last free place is not used. *)
AddTestTooEarly ==
  /\ stats' = Bump("addAttempts")
  /\ \/ count < maxCount - 1 /\ Access("writer", "test", "link")
     \/ count >= maxCount - 1 /\ Access("writer", "test", "refuse")
  /\ UNCHANGED <<maxCount, count, listVars, locals, status, mutex, sems, destroyed>>

AddTest ==
  /\ stats' = Bump("addAttempts")
  /\ \/ count < maxCount /\ Access("writer", "test", "link") /\ UNCHANGED status
     \/ count = maxCount /\ Access("writer", "test", "refuse") /\ UNCHANGED status
     \/ count > maxCount /\ ~ destroyed /\ Die("writer", "test", "assertion_failed")
  /\ UNCHANGED <<maxCount, count, listVars, locals, mutex, sems, destroyed>>

AddLink ==
  /\ Access("writer", "link", "tally")
  /\ \E n \in Node \ heap : Link(n, i)
  /\ UNCHANGED <<maxCount, count, stats, locals, status, mutex, sems, destroyed>>

(* malloc returns NULL: queueDestroy(q), whatever the other threads are    *)
(* doing with q, and then abort().                                         *)
AddNoMemory ==
  /\ Access("writer", "link", "abort")
  /\ destroyed' = TRUE
  /\ heap' = {}
  /\ UNCHANGED <<maxCount, count, stats, first, last, next, val, chain>>
  /\ UNCHANGED <<locals, status, mutex, sems>>

AddAbort ==
  /\ Die("writer", "abort", "out_of_memory")
  /\ UNCHANGED <<queueVars, locals, mutex, sems, destroyed>>

AddTally ==
  /\ Access("writer", "tally", "unlock")
  /\ TallyAdd
  /\ UNCHANGED <<maxCount, listVars, locals, status, mutex, sems, destroyed>>

AddUnlock == Unlock("writer", "unlock", "post")

(* Mutant of AddPost: the writer posts the semaphore it waits for. *)
AddPostFull ==
  /\ Access("writer", "post", "wait")
  /\ semFull' = semFull + 1
  /\ WriterAdvances
  /\ UNCHANGED <<queueVars, expected, got, snap, status, mutex, semEmpty, destroyed>>

AddPost ==
  /\ Access("writer", "post", "wait")
  /\ semEmpty' = semEmpty + 1
  /\ WriterAdvances
  /\ UNCHANGED <<queueVars, expected, got, snap, status, mutex, semFull, destroyed>>

AddRefuse == Unlock("writer", "refuse", "refuse_post")

AddRefusePost ==
  /\ Access("writer", "refuse_post", "destroy")
  /\ semEmpty' = semEmpty + 1
  /\ UNCHANGED <<queueVars, locals, status, mutex, semFull, destroyed>>

Writer == \/ AddWait \/ AddLock \/ AddTest \/ AddLink \/ AddNoMemory \/ AddAbort
          \/ AddTally \/ AddUnlock \/ AddPost \/ AddRefuse \/ AddRefusePost
          \/ Destroy("writer")

-----------------------------------------------------------------------------
(* queueGet and the reader's loop. *)

GetWait ==
  /\ Access("reader", "wait", "lock")
  /\ semEmpty > 0
  /\ semEmpty' = semEmpty - 1
  /\ UNCHANGED <<queueVars, locals, status, mutex, semFull, destroyed>>

GetLock == Lock("reader", "test")

GetTest ==
  /\ stats' = Bump("getAttempts")
  /\ \/ count > 0 /\ Access("reader", "test", "take") /\ UNCHANGED status
     \/ count = 0 /\ Access("reader", "test", "refuse") /\ UNCHANGED status
     \/ count < 0 /\ ~ destroyed /\ Die("reader", "test", "assertion_failed")
  /\ UNCHANGED <<maxCount, count, listVars, locals, mutex, sems, destroyed>>

GetTake ==
  /\ Access("reader", "take", "tally")
  /\ got' = val[first]
  /\ Unlink
  /\ UNCHANGED <<maxCount, count, stats, i, expected, snap, status, mutex, sems,
                 destroyed>>

GetTally ==
  /\ Access("reader", "tally", "unlock")
  /\ TallyGet
  /\ UNCHANGED <<maxCount, listVars, locals, status, mutex, sems, destroyed>>

GetUnlock == Unlock("reader", "unlock", "post")

(* Mutant of GetPost: the writer is not let in again. *)
GetPostForgotten ==
  /\ Access("reader", "post", "check")
  /\ UNCHANGED <<queueVars, locals, status, mutex, sems, destroyed>>

GetPost ==
  /\ Access("reader", "post", "check")
  /\ semFull' = semFull + 1
  /\ UNCHANGED <<queueVars, locals, status, mutex, semEmpty, destroyed>>

GetRefuse == Unlock("reader", "refuse", "refuse_post")

GetRefusePost ==
  /\ Access("reader", "refuse_post", "destroy")
  /\ semFull' = semFull + 1
  /\ UNCHANGED <<queueVars, locals, status, mutex, semEmpty, destroyed>>

GetCheck ==
  /\ Step("reader", "check", "wait")
  /\ ReaderChecks
  /\ UNCHANGED <<queueVars, i, got, snap, status, mutex, sems, destroyed>>

Reader == \/ GetWait \/ GetLock \/ GetTest \/ GetTake \/ GetTally
          \/ GetUnlock \/ GetPost \/ GetRefuse \/ GetRefusePost
          \/ Destroy("reader") \/ GetCheck

-----------------------------------------------------------------------------
(* queuePrintStats: five copies, in source order (the Makefile asks for no *)
(* optimisation) and without the mutex.                                    *)

StatsCall ==
  /\ Access("monitor", "wait", Fields[1])
  /\ UNCHANGED <<queueVars, locals, status, mutex, sems, destroyed>>

StatsRead ==
  /\ \E k \in 1 .. 5 :
       /\ Access("monitor", Fields[k], IF k = 5 THEN "print" ELSE Fields[k + 1])
       /\ ReadField(k)
  /\ UNCHANGED <<queueVars, i, expected, got, status, mutex, sems, destroyed>>

(* printf and sleep, where a cancelled monitor ends. *)
StatsPrint ==
  /\ Access("monitor", "print", "wait")
  /\ snap' = NoSnap
  /\ UNCHANGED <<queueVars, i, expected, got, status, mutex, sems, destroyed>>

Monitor == StatsCall \/ StatsRead \/ StatsPrint

Main == MainStep("wait") /\ UNCHANGED <<queueVars, locals, mutex, sems, destroyed>>

(* A thread touches the queue that another one, or it itself, has freed.   *)
(* Nothing is defined after that.                                          *)
TouchPoints(t) ==
  IF t = "monitor" THEN FieldNames
  ELSE {"wait", "lock", "test", "link", "take", "tally", "unlock", "post",
        "refuse", "refuse_post", "destroy"}

UseAfterDestroy ==
  /\ destroyed
  /\ \E t \in Workers : \E p \in TouchPoints(t) : Die(t, p, "use_after_destroy")
  /\ UNCHANGED <<queueVars, locals, mutex, sems, destroyed>>

Next == \/ Main \/ Writer \/ Reader \/ Monitor \/ UseAfterDestroy
        \/ Halted /\ UNCHANGED vars

Spec == Init /\ [][Next]_vars

(* Writer and reader are never both past their semaphores, so neither ever *)
(* finds the mutex locked, and running every thread that can run is enough.*)
FairSpec == Spec /\ WF_vars(Main) /\ WF_vars(Writer)
                 /\ WF_vars(Reader) /\ WF_vars(Monitor)

-----------------------------------------------------------------------------

WriterPoints == {"unborn", "wait", "lock", "test", "link", "tally", "unlock",
                 "post", "refuse", "refuse_post", "destroy", "abort"}
ReaderPoints == {"unborn", "wait", "lock", "test", "take", "tally", "unlock",
                 "post", "refuse", "refuse_post", "destroy", "check"}
MonitorPoints == {"unborn", "wait", "print"} \cup FieldNames
MainPoints    == Workers \cup {"join"}

(* Every variable has its declared type, every thread is in its routine.   *)
TypeOK ==
  /\ QueueTypeOK
  /\ ProgramTypeOK
  /\ pc \in [Threads -> UNION {WriterPoints, ReaderPoints, MonitorPoints, MainPoints}]
  /\ pc["writer"]  \in WriterPoints
  /\ pc["reader"]  \in ReaderPoints
  /\ pc["monitor"] \in MonitorPoints
  /\ pc["main"]    \in MainPoints
  /\ mutex \in Workers \cup {NoOne}
  /\ semEmpty \in 0 .. 1
  /\ semFull \in 0 .. 1
  /\ destroyed \in BOOLEAN

(* A thread that holds the right to touch the queue: it has waited and not *)
(* yet posted.                                                             *)
HoldsToken(t) ==
  pc[t] \in {"lock", "test", "link", "take", "tally", "unlock", "post",
             "refuse", "refuse_post", "abort"}

(* The two semaphores pass a single token between writer and reader: they  *)
(* are never inside their operations together, mutex or not, and the token *)
(* lies with the reader exactly when there is an element for it, so the    *)
(* queue never holds two.                                                  *)
OneToken ==
  /\ semEmpty + semFull + (IF HoldsToken("writer") THEN 1 ELSE 0)
                        + (IF HoldsToken("reader") THEN 1 ELSE 0) = 1
  /\ maxCount > 0 => /\ semEmpty = 1 => count = 1
                     /\ semFull  = 1 => count = 0

(* The queue is freed under the feet of the other threads in two cases     *)
(* only: for a capacity of 0 (the refusing branches, queue-sem-impl.c:177- *)
(* 182 and 221-226), and by a writer that has got no memory and aborts     *)
(* next (185-189).  A queue with room survives every refusal, and queueGet *)
(* never destroys it.                                                      *)
DestroyedForCause ==
  destroyed \/ status = "use_after_destroy" =>
    maxCount = 0 \/ pc["writer"] = "abort"

Fifo == INSTANCE BoundedFifo WITH
          cap <- maxCount, buf <- contents, put <- accepted, taken <- delivered

(* The semaphore queue implements the bounded queue. *)
ImplementsFifo == Fifo!Spec

(* It does so with progress, for every capacity that has room for one: the *)
(* queue alternates between empty and one element for ever.                *)
Alternates ==
  [](status = "running") /\ maxCount > 0 =>
    []<>(contents = <<>>) /\ []<>(contents # <<>>)

(* README.md, on what the program must do while it works: nothing falls    *)
(* over, no segmentation faults.                                           *)
NothingFallsOver == status # "use_after_destroy"
=============================================================================
