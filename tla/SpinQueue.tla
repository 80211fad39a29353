------------------------------ MODULE SpinQueue ------------------------------
(***************************************************************************)
(* lab2/code/2.2/spinlock: the queue of MutexQueue with a spin lock in the *)
(* place of the mutex (createSpinlock and destroySpinlock are the          *)
(* program's names for locking and unlocking it).  The steps are those of  *)
(* the mutex queue, except that queueGet does not count its attempts and   *)
(* that a failing malloc ends the process with nothing freed.              *)
(***************************************************************************)
EXTENDS QueueProgram

CONSTANT NoOne   \* the spin lock is free

VARIABLE lock    \* the thread that holds the spin lock

vars == <<queueVars, programVars, lock>>

(* Waiting for a spin lock or for a mutex differs only in what the waiting *)
(* thread does with its processor.                                         *)
M == INSTANCE MutexQueue WITH mutex <- lock

createSpinlock(t, to)        == M!Lock(t, to)
destroySpinlock(t, from, to) == M!Unlock(t, from, to)

Init == M!Init

-----------------------------------------------------------------------------
(* queueAdd and the writer's loop: the steps of the mutex queue, except    *)
(* that without memory the process ends at once.                           *)
AddNoMemory ==
  /\ Die("writer", "link", "out_of_memory")
  /\ UNCHANGED <<queueVars, locals, lock>>

Writer == \/ M!AddLock \/ M!AddTest \/ M!AddLink \/ AddNoMemory
          \/ M!AddTally \/ M!AddUnlock \/ M!AddRefused

(* queueGet: the only bound on the reader is what the writer has added.    *)
GetLock ==
  /\ createSpinlock("reader", "test")
  /\ UNCHANGED <<queueVars, locals, status>>

(* Mutant of GetTest: the last element is never taken. *)
GetTestLeavesOne ==
  /\ \/ count > 1 /\ Step("reader", "test", "take") /\ UNCHANGED status
     \/ count \in {0, 1} /\ Step("reader", "test", "refuse") /\ UNCHANGED status
     \/ count < 0 /\ Die("reader", "test", "assertion_failed")
  /\ UNCHANGED <<queueVars, locals, lock>>

GetTest ==
  /\ \/ count > 0 /\ Step("reader", "test", "take") /\ UNCHANGED status
     \/ count = 0 /\ Step("reader", "test", "refuse") /\ UNCHANGED status
     \/ count < 0 /\ Die("reader", "test", "assertion_failed")
  /\ UNCHANGED <<queueVars, locals, lock>>

GetRefused ==
  /\ destroySpinlock("reader", "refuse", "lock")
  /\ UNCHANGED <<queueVars, locals, status>>

Reader == \/ GetLock \/ GetTest \/ M!GetTake \/ M!GetTally
          \/ M!GetUnlock \/ GetRefused \/ M!GetCheck

(* queuePrintStats copies the fields under the lock. *)
Monitor == M!StatsLock \/ M!StatsRead \/ M!StatsUnlock \/ M!StatsPrint

Main == M!Main

Next == \/ Main \/ Writer \/ Reader \/ Monitor
        \/ Halted /\ UNCHANGED vars

Spec == Init /\ [][Next]_vars

FairSpec == Spec /\ WF_vars(Main) /\ WF_vars(Writer)
                 /\ WF_vars(Reader) /\ WF_vars(Monitor)

-----------------------------------------------------------------------------

(* The spin lock queue implements the bounded queue too. *)
ImplementsFifo == M!ImplementsFifo

(* The lock is never held for ever: a thread that has it gives it back or  *)
(* the process ends.  And if it serves every thread again and again, then  *)
(* numbers arrive again and again, for every capacity with room for one.   *)
LockServesAll == M!MutexIsReleased /\ M!DeliveryIfLockFair
=============================================================================
