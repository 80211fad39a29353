---------------------------- MODULE CondvarQueue ----------------------------
(***************************************************************************)
(* lab2/code/2.2/condvar: writer and reader wait on one condition variable *)
(* instead of returning 0.  flagCanShareData makes them take turns; it is  *)
(* not among the fields queueInit sets.                                    *)
(*                                                                         *)
(* queueAdd:  lock -> test -> enter -> link -> tally -> signal -> unlock   *)
(* queueGet:  lock -> enter -> test -> take -> tally -> signal -> unlock   *)
(*            -> check                                                     *)
(* with test -> wait -> test as long as the loop condition holds.          *)
(***************************************************************************)
EXTENDS QueueProgram

CONSTANTS
  NoOne,       \* the mutex is not locked
  FlagAtStart  \* what the memory from malloc may hold in flagCanShareData

ALLOW_SHARE    == 0
PROHIBIT_SHARE == 1

ASSUME CondvarQueueAssumption ==
  /\ NoOne \notin Workers
  /\ FlagAtStart \subseteq Int

VARIABLES
  mutex,            \* the thread that holds the mutex
  waiters,          \* the threads blocked on condVar
  flagCanShareData

vars == <<queueVars, programVars, mutex, waiters, flagCanShareData>>
condVars == <<waiters, flagCanShareData>>

Init ==
  /\ QueueInit
  /\ ProgramInit
  /\ mutex = NoOne
  /\ waiters = {}
  /\ flagCanShareData \in FlagAtStart

Lock(t, from, to) ==
  /\ Step(t, from, to)
  /\ mutex = NoOne
  /\ mutex' = t

Unlock(t, to) ==
  /\ Step(t, "unlock", to)
  /\ mutex' = NoOne

(* pthread_cond_wait: the mutex is released and the thread blocked in one  *)
(* step; a thread that is not blocked any more takes the mutex again       *)
(* before the call returns.                                                *)
Wait(t) ==
  /\ Step(t, "test", "wait")
  /\ waiters' = waiters \cup {t}
  /\ mutex' = NoOne
  /\ UNCHANGED <<queueVars, locals, status, flagCanShareData>>

Rewake(t) ==
  /\ t \notin waiters
  /\ Lock(t, "wait", "test")
  /\ UNCHANGED <<queueVars, locals, status, condVars>>

(* pthread_cond_wait may return although nobody signalled. *)
SpuriousWakeup ==
  /\ status = "running"
  /\ \E t \in waiters : waiters' = waiters \ {t}
  /\ UNCHANGED <<queueVars, programVars, mutex, flagCanShareData>>

(* Mutant of Signal: the signal is forgotten. *)
SignalLost(t) ==
  /\ Step(t, "signal", "unlock")
  /\ UNCHANGED <<queueVars, locals, status, mutex, condVars>>

(* pthread_cond_signal: one blocked thread, if there is one. *)
Signal(t) ==
  /\ Step(t, "signal", "unlock")
  /\ \/ waiters = {} /\ UNCHANGED waiters
     \/ \E w \in waiters : waiters' = waiters \ {w}
  /\ UNCHANGED <<queueVars, locals, status, mutex, flagCanShareData>>

-----------------------------------------------------------------------------
(* queueAdd and the writer's loop. *)

(* Mutant of AddBlocked: the writer does not wait for the reader's turn.   *)
AddBlockedWhenFull == count = maxCount

AddBlocked == count = maxCount \/ flagCanShareData = PROHIBIT_SHARE

AddLock ==
  /\ stats["addAttempts"] < MaxAttempts
  /\ Lock("writer", "lock", "test")
  /\ UNCHANGED <<queueVars, locals, status, condVars>>

AddWait == AddBlocked /\ Wait("writer")

AddRewake == Rewake("writer")

AddTest ==
  /\ ~ AddBlocked
  /\ Step("writer", "test", "enter")
  /\ UNCHANGED <<queueVars, locals, status, mutex, condVars>>

AddEnter ==
  /\ stats' = Bump("addAttempts")
  /\ \/ count <= maxCount /\ Step("writer", "enter", "link") /\ UNCHANGED status
     \/ count > maxCount /\ Die("writer", "enter", "assertion_failed")
  /\ UNCHANGED <<maxCount, count, listVars, locals, mutex, condVars>>

AddLink ==
  /\ Step("writer", "link", "tally")
  /\ \E n \in Node \ heap : Link(n, i)
  /\ UNCHANGED <<maxCount, count, stats, locals, status, mutex, condVars>>

AddNoMemory ==
  /\ Die("writer", "link", "out_of_memory")
  /\ UNCHANGED <<queueVars, locals, mutex, condVars>>

AddTally ==
  /\ Step("writer", "tally", "signal")
  /\ TallyAdd
  /\ flagCanShareData' = PROHIBIT_SHARE
  /\ UNCHANGED <<maxCount, listVars, locals, status, mutex, waiters>>

AddUnlock ==
  /\ Unlock("writer", "lock")
  /\ WriterAdvances
  /\ UNCHANGED <<queueVars, expected, got, snap, status, condVars>>

Writer == \/ AddLock \/ AddWait \/ AddRewake \/ AddTest \/ AddEnter \/ AddLink
          \/ AddNoMemory \/ AddTally \/ Signal("writer") \/ AddUnlock

-----------------------------------------------------------------------------
(* queueGet and the reader's loop.  The test for an empty queue after the  *)
(* loop cannot succeed: the loop has just found count > 0.                 *)

GetBlocked == ~ (count > 0) \/ flagCanShareData = ALLOW_SHARE

GetLock ==
  /\ stats["getAttempts"] < MaxAttempts
  /\ Lock("reader", "lock", "enter")
  /\ UNCHANGED <<queueVars, locals, status, condVars>>

GetEnter ==
  /\ stats' = Bump("getAttempts")
  /\ \/ count >= 0 /\ Step("reader", "enter", "test") /\ UNCHANGED status
     \/ count < 0 /\ Die("reader", "enter", "assertion_failed")
  /\ UNCHANGED <<maxCount, count, listVars, locals, mutex, condVars>>

GetWait == GetBlocked /\ Wait("reader")

GetRewake == Rewake("reader")

GetTest ==
  /\ ~ GetBlocked
  /\ Step("reader", "test", "take")
  /\ UNCHANGED <<queueVars, locals, status, mutex, condVars>>

GetTake ==
  /\ Step("reader", "take", "tally")
  /\ got' = val[first]
  /\ Unlink
  /\ UNCHANGED <<maxCount, count, stats, i, expected, snap, status, mutex, condVars>>

GetTally ==
  /\ Step("reader", "tally", "signal")
  /\ TallyGet
  /\ flagCanShareData' = ALLOW_SHARE
  /\ UNCHANGED <<maxCount, listVars, locals, status, mutex, waiters>>

GetUnlock ==
  /\ Unlock("reader", "check")
  /\ UNCHANGED <<queueVars, locals, status, condVars>>

GetCheck ==
  /\ Step("reader", "check", "lock")
  /\ ReaderChecks
  /\ UNCHANGED <<queueVars, i, got, snap, status, mutex, condVars>>

Reader == \/ GetLock \/ GetEnter \/ GetWait \/ GetRewake \/ GetTest \/ GetTake
          \/ GetTally \/ Signal("reader") \/ GetUnlock \/ GetCheck

-----------------------------------------------------------------------------
(* queuePrintStats and the monitor's loop. *)

(* Mutant of StatsLock: the statistics are copied without the mutex. *)
StatsUnlocked ==
  /\ Step("monitor", "lock", Fields[1])
  /\ UNCHANGED <<queueVars, locals, status, mutex, condVars>>

StatsLock ==
  /\ Lock("monitor", "lock", Fields[1])
  /\ UNCHANGED <<queueVars, locals, status, condVars>>

StatsRead ==
  /\ \E k \in 1 .. 5 :
       /\ Step("monitor", Fields[k], IF k = 5 THEN "unlock" ELSE Fields[k + 1])
       /\ ReadField(k)
  /\ UNCHANGED <<queueVars, i, expected, got, status, mutex, condVars>>

StatsUnlock ==
  /\ Unlock("monitor", "print")
  /\ UNCHANGED <<queueVars, locals, status, condVars>>

StatsPrint ==
  /\ Step("monitor", "print", "lock")
  /\ snap' = NoSnap
  /\ UNCHANGED <<queueVars, i, expected, got, status, mutex, condVars>>

Monitor == StatsLock \/ StatsRead \/ StatsUnlock \/ StatsPrint

Main == MainStep("lock") /\ UNCHANGED <<queueVars, locals, mutex, condVars>>

Next == \/ Main \/ Writer \/ Reader \/ Monitor \/ SpuriousWakeup
        \/ Halted /\ UNCHANGED vars

Spec == Init /\ [][Next]_vars

(* Every thread that can run does.  The mutex is free most of the time:    *)
(* writer and reader block when it is not their turn, and the monitor      *)
(* sleeps for a second between two calls, so a thread that wants it again  *)
(* and again gets it.                                                      *)
FairSpec ==
  /\ Spec
  /\ WF_vars(Main) /\ WF_vars(Writer) /\ WF_vars(Reader) /\ WF_vars(Monitor)
  /\ SF_vars(AddLock) /\ SF_vars(AddRewake)
  /\ SF_vars(GetLock) /\ SF_vars(GetRewake)

-----------------------------------------------------------------------------

WriterPoints == {"unborn", "lock", "test", "wait", "enter", "link", "tally",
                 "signal", "unlock"}
ReaderPoints == {"unborn", "lock", "enter", "test", "wait", "take", "tally",
                 "signal", "unlock", "check"}
MonitorPoints == {"unborn", "lock", "unlock", "print"} \cup FieldNames
MainPoints    == Workers \cup {"join"}

(* Every variable has its declared type, every thread is in its routine.   *)
TypeOK ==
  /\ QueueTypeOK
  /\ ProgramTypeOK
  /\ pc \in [Threads -> UNION {WriterPoints, ReaderPoints, MonitorPoints, MainPoints}]
  /\ pc["writer"]  \in WriterPoints
  /\ pc["reader"]  \in ReaderPoints
  /\ pc["monitor"] \in MonitorPoints
  /\ pc["main"]    \in MainPoints
  /\ mutex \in Workers \cup {NoOne}
  /\ waiters \subseteq {"writer", "reader"}
  /\ flagCanShareData \in Int

(* The flag is the reader's turn exactly when there is something to read,  *)
(* so the queue never holds more than one element, whatever maxCount is.   *)
TurnMatchesList ==
  mutex = NoOne => /\ count \in {0, 1}
                   /\ flagCanShareData = PROHIBIT_SHARE <=> count = 1

(* One condition variable is enough for both directions: a thread that is  *)
(* blocked although its condition has become false is about to be          *)
(* signalled, by the thread that made it false.                            *)
NoLostWakeup ==
  /\ "writer" \in waiters /\ ~ AddBlocked => pc["reader"] = "signal"
  /\ "reader" \in waiters /\ ~ GetBlocked => pc["writer"] = "signal"

(* queueAdd counts its attempt after the wait and queueGet before it: a    *)
(* printed line never shows an unsuccessful attempt to add, and at most    *)
(* one attempt to get that is still waiting.                               *)
PrintedStatsConsistent ==
  pc["monitor"] = "print" =>
    /\ snap["addAttempts"] = snap["addCount"]
    /\ \E n \in {0, 1} : Ahead(snap["getAttempts"], snap["getCount"], n)
    /\ Ahead(snap["addCount"], snap["getCount"], snap["count"])

Fifo == INSTANCE BoundedFifo WITH
          cap <- maxCount, buf <- contents, put <- accepted, taken <- delivered

(* The condition-variable queue implements the bounded queue. *)
ImplementsFifo == Fifo!Spec

(* It does so with progress: while the process lives, an empty queue with  *)
(* room is filled and an element in it is taken.                           *)
FifoProgress == [](status = "running") => Fifo!Fairness

(* What queue-condvar-impl.h:44-49 hopes for: whoever wants to add will be *)
(* able to add, and whoever wants to read will be able to read.            *)
EveryoneGetsATurn ==
  [](status = "running") /\ maxCount > 0 =>
    []<>(pc["writer"] = "link") /\ []<>(pc["reader"] = "take")
=============================================================================
