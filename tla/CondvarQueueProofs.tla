------------------------- MODULE CondvarQueueProofs -------------------------
(***************************************************************************)
(* The safety of the condition-variable queue for every capacity, every    *)
(* supply of memory blocks, every width of the integers and whatever the   *)
(* memory of flagCanShareData holds at the start.                          *)
(***************************************************************************)
EXTENDS CondvarQueue, QueueTProofs

(* The control points at which a thread has the mutex. *)
InsidePoints ==
  {"test", "enter", "link", "take", "tally", "signal", "unlock"} \cup FieldNames

(* Every thread is at a control point of its routine.                      *)
ControlInv ==
  /\ pc \in [Threads -> UNION {WriterPoints, ReaderPoints, MonitorPoints, MainPoints}]
  /\ pc["writer"]  \in WriterPoints
  /\ pc["reader"]  \in ReaderPoints
  /\ pc["monitor"] \in MonitorPoints
  /\ pc["main"]    \in MainPoints

(* Exactly the holder of the mutex is inside an operation, and who is on   *)
(* the list of the condition variable is in pthread_cond_wait.             *)
LockInv ==
  /\ \A t \in Workers : pc[t] \in InsidePoints <=> mutex = t
  /\ \A t \in waiters : pc[t] = "wait"

(* A thread main has not come to yet does not run. *)
BirthInv ==
  /\ pc["main"] = "monitor" => pc["monitor"] = "unborn"
  /\ pc["main"] \in {"monitor", "reader"} => pc["reader"] = "unborn"
  /\ pc["main"] \in {"monitor", "reader", "writer"} => pc["writer"] = "unborn"

(* The flag is the reader's turn when there is an element.  It can be the  *)
(* reader's turn without one only if it was so from the start.             *)
TurnInv ==
  /\ count \in {0, 1}
  /\ count = 1 => flagCanShareData = PROHIBIT_SHARE
  /\ count = 0 /\ flagCanShareData = PROHIBIT_SHARE => PROHIBIT_SHARE \in FlagAtStart

(* What the loops of queueAdd and queueGet have waited for still holds     *)
(* when the list is touched, and what the operation has achieved holds     *)
(* until it is over.                                                       *)
TestedInv ==
  /\ pc["writer"] \in {"enter", "link", "tally"} => count = 0 /\ count # maxCount
  /\ pc["writer"] \in {"link", "tally"} => count < maxCount
  /\ pc["writer"] = "signal" => count = 1
  /\ pc["reader"] \in {"take", "tally"} => count = 1
  /\ pc["reader"] = "signal" => count = 0

(* count lags behind the list only while an operation is under way. *)
CountInv ==
  count = Len(chain) - (IF pc["writer"] = "tally" THEN 1 ELSE 0)
                     + (IF pc["reader"] = "tally" THEN 1 ELSE 0)

(* A value on its way from queueGet to the check is the expected one. *)
ReaderInv ==
  pc["reader"] \in {"tally", "signal", "unlock", "check"} => got = expected

(* The values in the list are the numbers accepted and not yet delivered.  *)
ValuesInv == ValuesBetween(delivered, accepted)

(* The strengthening of the properties below.                              *)
Inv == /\ TypeOK /\ LockInv /\ BirthInv /\ TurnInv /\ TestedInv /\ NoLostWakeup
       /\ ListIntact /\ CountInv /\ ReaderInv /\ ValuesInv

-----------------------------------------------------------------------------

LEMMA Initially == Init => Inv
<1> SUFFICES ASSUME Init PROVE Inv
  OBVIOUS
<1> USE DEF Init, QueueInit, ProgramInit
<1>1. TypeOK
  BY QueueTAssumption, CondvarQueueAssumption, EmptySeq
  DEF TypeOK, QueueTypeOK, ListTypeOK, ProgramTypeOK, CInt, CLong,
      NoSnap, Statuses, WriterPoints, ReaderPoints, MonitorPoints, MainPoints,
      Threads, Workers
<1>2. Len(chain) = 0
  BY EmptySeq
<1>3. ListIntact
  BY <1>2 DEF ListIntact
<1>4. LockInv
  BY CondvarQueueAssumption DEF LockInv, InsidePoints, Workers, Threads, FieldNames, Counters
<1>5. ValuesInv
  BY <1>2 DEF ValuesInv, ValuesBetween, delivered, accepted, Threads, Workers
<1>6. CountInv /\ TestedInv /\ TurnInv /\ ReaderInv /\ BirthInv /\ NoLostWakeup
  BY <1>2 DEF CountInv, TestedInv, TurnInv, ReaderInv, BirthInv, NoLostWakeup,
              Threads, Workers
<1> QED
  BY <1>1, <1>3, <1>4, <1>5, <1>6 DEF Inv

-----------------------------------------------------------------------------
(* Locking, waiting, unlocking and stepping inside or outside the critical *)
(* section keep the mutex with the thread that is inside.                  *)

LEMMA ControlFacts ==
  ASSUME TypeOK
  PROVE  /\ ControlInv
         /\ maxCount \in Int /\ count \in Int /\ Len(chain) \in Nat
BY QueueTAssumption, LenProperties DEF TypeOK, QueueTypeOK, ListTypeOK, ControlInv

LEMMA LockTaken ==
  ASSUME ControlInv, LockInv, NEW t \in Workers, NEW from, NEW to \in InsidePoints,
         t \notin waiters, Lock(t, from, to), UNCHANGED waiters
  PROVE  LockInv'
BY CondvarQueueAssumption DEF ControlInv, LockInv, Lock, Step, Threads

LEMMA LockReleased ==
  ASSUME ControlInv, LockInv, NEW t \in Workers, NEW to,
         to \notin InsidePoints, Unlock(t, to), UNCHANGED waiters
  PROVE  LockInv'
<1>1. pc[t] = "unlock" /\ pc[t] \in InsidePoints
  BY DEF Unlock, Step, InsidePoints
<1> QED
  BY <1>1, CondvarQueueAssumption DEF ControlInv, LockInv, Unlock, Step, Threads

LEMMA LockKept ==
  ASSUME ControlInv, LockInv, NEW t \in Threads, NEW from, NEW to,
         Step(t, from, to), UNCHANGED mutex, from # "wait", waiters' \subseteq waiters,
         from \in InsidePoints <=> to \in InsidePoints
  PROVE  LockInv'
BY DEF ControlInv, LockInv, Step, Threads

LEMMA LockWaited ==
  ASSUME ControlInv, LockInv, NEW t \in Workers, Wait(t)
  PROVE  LockInv'
<1>1. pc[t] \in InsidePoints /\ "wait" \notin InsidePoints
  BY DEF Wait, Step, InsidePoints, FieldNames, Counters
<1> QED
  BY <1>1, CondvarQueueAssumption DEF ControlInv, LockInv, Wait, Step, Threads

(* Only one thread is inside: what the others' control points cannot be.   *)
LEMMA MutualExclusion ==
  ASSUME LockInv, NEW t \in Workers, pc[t] \in InsidePoints
  PROVE  \A u \in Workers \ {t} : pc[u] \notin InsidePoints
BY DEF LockInv

LEMMA BirthKept ==
  ASSUME ControlInv, BirthInv, NEW t \in Workers, NEW from, NEW to,
         from # "unborn", Step(t, from, to)
  PROVE  BirthInv'
BY DEF ControlInv, BirthInv, Step, Threads, Workers

(* The end of the process changes nothing but status. *)
LEMMA HaltKeepsInv ==
  ASSUME Inv, status' \in Statuses,
         UNCHANGED <<listVars, pc, mutex, maxCount, count, stats, locals, condVars>>
  PROVE  Inv'
<1>1. TypeOK'
  BY DEF Inv, TypeOK, QueueTypeOK, ListTypeOK, ProgramTypeOK, listVars, locals, condVars
<1>2. LockInv' /\ BirthInv' /\ TurnInv' /\ TestedInv' /\ NoLostWakeup'
  BY DEF Inv, LockInv, BirthInv, TurnInv, TestedInv, NoLostWakeup, AddBlocked,
         GetBlocked, condVars
<1>3. ListIntact' /\ CountInv' /\ ReaderInv' /\ accepted' = accepted /\ delivered' = delivered
  BY ListFrame DEF Inv, CountInv, ReaderInv, accepted, delivered, locals
<1>4. ValuesInv'
  BY <1>3, ListFrame DEF Inv, ValuesInv
<1> QED
  BY <1>1, <1>2, <1>3, <1>4 DEF Inv

-----------------------------------------------------------------------------
(* One lemma per thread, one step per action. *)

LEMMA WriterKeepsInv == Inv /\ Writer => Inv'
<1> SUFFICES ASSUME Inv, Writer PROVE Inv'
  OBVIOUS
<1>1. CASE AddLock
  <2>0. ControlInv /\ LockInv /\ BirthInv /\ Inv /\ TypeOK
    BY ControlFacts DEF Inv
  <2>1. /\ pc["writer"] = "lock" /\ pc' = [pc EXCEPT !["writer"] = "test"]
        /\ UNCHANGED listVars
    BY <1>1 DEF AddLock, Lock, Unlock, Wait, Step, queueVars, listVars
  <2>2. pc'["writer"] = "test" /\ \A u \in Threads \ {"writer"} : pc'[u] = pc[u]
    BY <2>0, <2>1 DEF ControlInv, Threads, Workers
  <2>3. TypeOK'
    BY <1>1, <2>0, <2>1
    DEF AddLock, Lock, Unlock, Wait, Step, TypeOK, QueueTypeOK, ListTypeOK, ProgramTypeOK,
        WriterPoints, Threads, Workers, listVars, queueVars, locals, condVars
  <2>4. LockInv'
    BY <1>1, <2>0, <2>1, LockTaken DEF AddLock, InsidePoints, LockInv, Workers, condVars
  <2>5. BirthInv'
    BY <2>0, <2>1, <2>2 DEF BirthInv, Threads, Workers
  <2>6. TurnInv' /\ TestedInv' /\ CountInv' /\ NoLostWakeup'
    BY <1>1, <2>0, <2>1, <2>2, ControlFacts, MutualExclusion
    DEF AddLock, Inv, Wait, Lock, Unlock, TurnInv, TestedInv, CountInv, NoLostWakeup, AddBlocked, GetBlocked,
        Threads, Workers, InsidePoints, LockInv, listVars, queueVars, condVars,
        ALLOW_SHARE, PROHIBIT_SHARE
  <2>7. ReaderInv' /\ accepted' = accepted /\ delivered' = delivered
    BY <1>1, <2>0, <2>1, <2>2
    DEF AddLock, Inv, Wait, Lock, Unlock, ReaderInv, accepted, delivered, Threads, Workers, locals
  <2>8. ListIntact' /\ ValuesInv'
    BY <2>0, <2>1, <2>7, ListFrame DEF Inv, ValuesInv
  <2> QED
    BY <2>3, <2>4, <2>5, <2>6, <2>7, <2>8 DEF Inv
<1>2. CASE AddWait
  <2>0. ControlInv /\ LockInv /\ BirthInv /\ Inv /\ TypeOK
    BY ControlFacts DEF Inv
  <2>1. /\ pc["writer"] = "test" /\ pc' = [pc EXCEPT !["writer"] = "wait"]
        /\ UNCHANGED listVars
    BY <1>2 DEF AddWait, Lock, Unlock, Wait, Step, queueVars, listVars
  <2>2. pc'["writer"] = "wait" /\ \A u \in Threads \ {"writer"} : pc'[u] = pc[u]
    BY <2>0, <2>1 DEF ControlInv, Threads, Workers
  <2>3. TypeOK'
    BY <1>2, <2>0, <2>1
    DEF AddWait, Lock, Unlock, Wait, Step, TypeOK, QueueTypeOK, ListTypeOK, ProgramTypeOK,
        WriterPoints, Threads, Workers, listVars, queueVars, locals, condVars
  <2>4. LockInv'
    BY <1>2, <2>0, LockWaited DEF AddWait, Workers
  <2>5. BirthInv'
    BY <2>0, <2>1, <2>2 DEF BirthInv, Threads, Workers
  <2>6. TurnInv' /\ TestedInv' /\ CountInv' /\ NoLostWakeup'
    BY <1>2, <2>0, <2>1, <2>2, ControlFacts, MutualExclusion
    DEF AddWait, Inv, Wait, Lock, Unlock, TurnInv, TestedInv, CountInv, NoLostWakeup, AddBlocked, GetBlocked,
        Threads, Workers, InsidePoints, LockInv, listVars, queueVars, condVars,
        ALLOW_SHARE, PROHIBIT_SHARE
  <2>7. ReaderInv' /\ accepted' = accepted /\ delivered' = delivered
    BY <1>2, <2>0, <2>1, <2>2
    DEF AddWait, Inv, Wait, Lock, Unlock, ReaderInv, accepted, delivered, Threads, Workers, locals
  <2>8. ListIntact' /\ ValuesInv'
    BY <2>0, <2>1, <2>7, ListFrame DEF Inv, ValuesInv
  <2> QED
    BY <2>3, <2>4, <2>5, <2>6, <2>7, <2>8 DEF Inv
<1>3. CASE AddRewake
  <2>0. ControlInv /\ LockInv /\ BirthInv /\ Inv /\ TypeOK
    BY ControlFacts DEF Inv
  <2>1. /\ pc["writer"] = "wait" /\ pc' = [pc EXCEPT !["writer"] = "test"]
        /\ UNCHANGED listVars
    BY <1>3 DEF AddRewake, Rewake, Lock, Unlock, Wait, Step, queueVars, listVars
  <2>2. pc'["writer"] = "test" /\ \A u \in Threads \ {"writer"} : pc'[u] = pc[u]
    BY <2>0, <2>1 DEF ControlInv, Threads, Workers
  <2>3. TypeOK'
    BY <1>3, <2>0, <2>1
    DEF AddRewake, Rewake, Lock, Unlock, Wait, Step, TypeOK, QueueTypeOK, ListTypeOK, ProgramTypeOK,
        WriterPoints, Threads, Workers, listVars, queueVars, locals, condVars
  <2>4. LockInv'
    BY <1>3, <2>0, LockTaken DEF AddRewake, Rewake, InsidePoints, LockInv, Workers, condVars
  <2>5. BirthInv'
    BY <2>0, <2>1, <2>2 DEF BirthInv, Threads, Workers
  <2>6. TurnInv' /\ TestedInv' /\ CountInv' /\ NoLostWakeup'
    BY <1>3, <2>0, <2>1, <2>2, ControlFacts, MutualExclusion
    DEF AddRewake, Rewake, Inv, Wait, Lock, Unlock, TurnInv, TestedInv, CountInv, NoLostWakeup, AddBlocked, GetBlocked,
        Threads, Workers, InsidePoints, LockInv, listVars, queueVars, condVars,
        ALLOW_SHARE, PROHIBIT_SHARE
  <2>7. ReaderInv' /\ accepted' = accepted /\ delivered' = delivered
    BY <1>3, <2>0, <2>1, <2>2
    DEF AddRewake, Rewake, Inv, Wait, Lock, Unlock, ReaderInv, accepted, delivered, Threads, Workers, locals
  <2>8. ListIntact' /\ ValuesInv'
    BY <2>0, <2>1, <2>7, ListFrame DEF Inv, ValuesInv
  <2> QED
    BY <2>3, <2>4, <2>5, <2>6, <2>7, <2>8 DEF Inv
<1>4. CASE AddTest
  <2>0. ControlInv /\ LockInv /\ BirthInv /\ Inv /\ TypeOK
    BY ControlFacts DEF Inv
  <2>1. /\ pc["writer"] = "test" /\ pc' = [pc EXCEPT !["writer"] = "enter"]
        /\ UNCHANGED listVars
    BY <1>4 DEF AddTest, Lock, Unlock, Wait, Step, queueVars, listVars
  <2>2. pc'["writer"] = "enter" /\ \A u \in Threads \ {"writer"} : pc'[u] = pc[u]
    BY <2>0, <2>1 DEF ControlInv, Threads, Workers
  <2>3. TypeOK'
    BY <1>4, <2>0, <2>1
    DEF AddTest, Lock, Unlock, Wait, Step, TypeOK, QueueTypeOK, ListTypeOK, ProgramTypeOK,
        WriterPoints, Threads, Workers, listVars, queueVars, locals, condVars
  <2>4. LockInv'
    BY <1>4, <2>0, LockKept DEF AddTest, InsidePoints, FieldNames, Counters, Threads, Workers, condVars
  <2>5. BirthInv'
    BY <2>0, <2>1, <2>2 DEF BirthInv, Threads, Workers
  <2>6. TurnInv' /\ TestedInv' /\ CountInv' /\ NoLostWakeup'
    BY <1>4, <2>0, <2>1, <2>2, ControlFacts, MutualExclusion
    DEF AddTest, Inv, Wait, Lock, Unlock, TurnInv, TestedInv, CountInv, NoLostWakeup, AddBlocked, GetBlocked,
        Threads, Workers, InsidePoints, LockInv, listVars, queueVars, condVars,
        ALLOW_SHARE, PROHIBIT_SHARE
  <2>7. ReaderInv' /\ accepted' = accepted /\ delivered' = delivered
    BY <1>4, <2>0, <2>1, <2>2
    DEF AddTest, Inv, Wait, Lock, Unlock, ReaderInv, accepted, delivered, Threads, Workers, locals
  <2>8. ListIntact' /\ ValuesInv'
    BY <2>0, <2>1, <2>7, ListFrame DEF Inv, ValuesInv
  <2> QED
    BY <2>3, <2>4, <2>5, <2>6, <2>7, <2>8 DEF Inv
<1>5. CASE AddTally
  <2>0. ControlInv /\ LockInv /\ BirthInv /\ Inv /\ TypeOK
    BY ControlFacts DEF Inv
  <2>1. /\ pc["writer"] = "tally" /\ pc' = [pc EXCEPT !["writer"] = "signal"]
        /\ UNCHANGED listVars
    BY <1>5 DEF AddTally, TallyAdd, Lock, Unlock, Wait, Step, queueVars, listVars
  <2>2. pc'["writer"] = "signal" /\ \A u \in Threads \ {"writer"} : pc'[u] = pc[u]
    BY <2>0, <2>1 DEF ControlInv, Threads, Workers
  <2>3. TypeOK'
    <3>1. stats' \in [Counters -> CLong]
      BY <1>5, <2>0, BumpType DEF AddTally, TallyAdd, Counters, TypeOK, QueueTypeOK
    <3>2. count' \in Int /\ flagCanShareData' \in Int
      BY <1>5, <2>0, ControlFacts DEF AddTally, TallyAdd, ALLOW_SHARE, PROHIBIT_SHARE
    <3> QED
      BY <1>5, <2>0, <2>1, <3>1, <3>2
      DEF AddTally, TypeOK, QueueTypeOK, ListTypeOK, ProgramTypeOK,
          WriterPoints, Threads, Workers, listVars, locals
  <2>4. LockInv'
    BY <1>5, <2>0, LockKept DEF AddTally, TallyAdd, InsidePoints, FieldNames, Counters, Threads, Workers, condVars
  <2>5. BirthInv'
    BY <2>0, <2>1, <2>2 DEF BirthInv, Threads, Workers
  <2>6. TurnInv' /\ TestedInv' /\ CountInv' /\ NoLostWakeup'
    <3>1. /\ count = 0 /\ count' = 1 /\ flagCanShareData' = PROHIBIT_SHARE
          /\ maxCount' = maxCount /\ waiters' = waiters
      BY <1>5, <2>0, <2>1 DEF AddTally, TallyAdd, Inv, TestedInv
    <3>2. /\ "writer" \notin waiters
          /\ pc["reader"] \notin {"enter", "link", "take", "tally", "signal"}
      BY <2>0, <2>1, MutualExclusion DEF LockInv, InsidePoints, Workers
    <3>3. pc'["reader"] = pc["reader"]
      BY <2>2 DEF Threads, Workers
    <3>4. TurnInv' /\ TestedInv' /\ NoLostWakeup'
      BY <2>2, <3>1, <3>2, <3>3
      DEF TurnInv, TestedInv, NoLostWakeup, AddBlocked, GetBlocked, ALLOW_SHARE,
          PROHIBIT_SHARE
    <3>5. Len(chain') = Len(chain) /\ CountInv
      BY <2>0, <2>1 DEF Inv, listVars
    <3>6. CountInv'
      BY <2>0, <2>1, <2>2, <3>1, <3>2, <3>3, <3>5, ControlFacts DEF CountInv
    <3> QED
      BY <3>4, <3>6
  <2>7. ReaderInv' /\ accepted' = accepted /\ delivered' = delivered
    BY <1>5, <2>0, <2>1, <2>2
    DEF AddTally, TallyAdd, Inv, Wait, Lock, Unlock, ReaderInv, accepted, delivered, Threads, Workers, locals
  <2>8. ListIntact' /\ ValuesInv'
    BY <2>0, <2>1, <2>7, ListFrame DEF Inv, ValuesInv
  <2> QED
    BY <2>3, <2>4, <2>5, <2>6, <2>7, <2>8 DEF Inv
<1>6. CASE Signal("writer")
  <2>0. ControlInv /\ LockInv /\ BirthInv /\ Inv /\ TypeOK
    BY ControlFacts DEF Inv
  <2>1. /\ pc["writer"] = "signal" /\ pc' = [pc EXCEPT !["writer"] = "unlock"]
        /\ UNCHANGED listVars
    BY <1>6 DEF Signal, Lock, Unlock, Wait, Step, queueVars, listVars
  <2>2. pc'["writer"] = "unlock" /\ \A u \in Threads \ {"writer"} : pc'[u] = pc[u]
    BY <2>0, <2>1 DEF ControlInv, Threads, Workers
  <2>3. TypeOK'
    <3>1. waiters' \subseteq waiters
      BY <1>6 DEF Signal
    <3> QED
      BY <1>6, <2>0, <2>1, <3>1
      DEF Signal, TypeOK, QueueTypeOK, ListTypeOK, ProgramTypeOK,
          WriterPoints, Threads, Workers, listVars, queueVars, locals
  <2>4. LockInv'
    BY <1>6, <2>0, LockKept DEF Signal, InsidePoints, FieldNames, Counters, Threads, Workers, condVars
  <2>5. BirthInv'
    BY <2>0, <2>1, <2>2 DEF BirthInv, Threads, Workers
  <2>6. TurnInv' /\ TestedInv' /\ CountInv' /\ NoLostWakeup'
    <3>1. /\ UNCHANGED <<count, flagCanShareData, maxCount>>
          /\ waiters' \subseteq waiters
      BY <1>6 DEF Signal, queueVars
    <3>2. "writer" \notin waiters /\ pc["reader"] \notin {"tally", "signal"}
      BY <2>0, <2>1, MutualExclusion DEF LockInv, InsidePoints, Workers
    <3>3. waiters \subseteq {"reader"}
      BY <2>0, <3>2 DEF TypeOK
    <3>4. waiters' = {}
      <4>1. CASE waiters = {}
        BY <3>1, <4>1
      <4>2. CASE waiters # {}
        <5>1. PICK w \in waiters : waiters' = waiters \ {w}
          BY <1>6, <4>2 DEF Signal
        <5> QED
          BY <3>3, <5>1
      <4> QED
        BY <4>1, <4>2
    <3>5. pc'["reader"] = pc["reader"]
      BY <2>2 DEF Threads, Workers
    <3>6. TurnInv' /\ TestedInv' /\ NoLostWakeup'
      BY <2>0, <2>1, <2>2, <3>1, <3>4, <3>5 DEF Inv, TurnInv, TestedInv, NoLostWakeup
    <3>7. CountInv'
      BY <2>0, <2>1, <2>2, <3>1, <3>2, <3>5 DEF Inv, CountInv, listVars
    <3> QED
      BY <3>6, <3>7
  <2>7. ReaderInv' /\ accepted' = accepted /\ delivered' = delivered
    BY <1>6, <2>0, <2>1, <2>2
    DEF Signal, Inv, Wait, Lock, Unlock, ReaderInv, accepted, delivered, Threads, Workers, locals
  <2>8. ListIntact' /\ ValuesInv'
    BY <2>0, <2>1, <2>7, ListFrame DEF Inv, ValuesInv
  <2> QED
    BY <2>3, <2>4, <2>5, <2>6, <2>7, <2>8 DEF Inv
<1>7. CASE AddUnlock
  <2>0. ControlInv /\ LockInv /\ BirthInv /\ Inv /\ TypeOK
    BY ControlFacts DEF Inv
  <2>1. /\ pc["writer"] = "unlock" /\ pc' = [pc EXCEPT !["writer"] = "lock"]
        /\ UNCHANGED listVars
    BY <1>7 DEF AddUnlock, WriterAdvances, Lock, Unlock, Wait, Step, queueVars, listVars
  <2>2. pc'["writer"] = "lock" /\ \A u \in Threads \ {"writer"} : pc'[u] = pc[u]
    BY <2>0, <2>1 DEF ControlInv, Threads, Workers
  <2>3. TypeOK'
    <3>1. i' \in CInt
      BY <1>7, <2>0, NextIntType DEF AddUnlock, WriterAdvances, TypeOK, ProgramTypeOK
    <3> QED
      BY <1>7, <2>0, <2>1, <3>1
      DEF AddUnlock, Unlock, TypeOK, QueueTypeOK, ListTypeOK, ProgramTypeOK,
          WriterPoints, Threads, Workers, listVars, queueVars, condVars
  <2>4. LockInv'
    BY <1>7, <2>0, LockReleased DEF AddUnlock, InsidePoints, FieldNames, Counters, Workers, condVars
  <2>5. BirthInv'
    BY <2>0, <2>1, <2>2 DEF BirthInv, Threads, Workers
  <2>6. TurnInv' /\ TestedInv' /\ CountInv' /\ NoLostWakeup'
    BY <1>7, <2>0, <2>1, <2>2, ControlFacts, MutualExclusion
    DEF AddUnlock, WriterAdvances, Inv, Wait, Lock, Unlock, TurnInv, TestedInv, CountInv, NoLostWakeup, AddBlocked, GetBlocked,
        Threads, Workers, InsidePoints, LockInv, listVars, queueVars, condVars,
        ALLOW_SHARE, PROHIBIT_SHARE
  <2>7. ReaderInv' /\ accepted' = accepted /\ delivered' = delivered
    BY <1>7, <2>0, <2>1, <2>2
    DEF AddUnlock, WriterAdvances, Inv, Wait, Lock, Unlock, ReaderInv, accepted, delivered, Threads, Workers, locals
  <2>8. ListIntact' /\ ValuesInv'
    BY <2>0, <2>1, <2>7, ListFrame DEF Inv, ValuesInv
  <2> QED
    BY <2>3, <2>4, <2>5, <2>6, <2>7, <2>8 DEF Inv
<1>8. CASE AddEnter
  <2>0. ControlInv /\ LockInv /\ BirthInv /\ Inv /\ TypeOK
    BY ControlFacts DEF Inv
  <2>1. /\ pc["writer"] = "enter" /\ UNCHANGED <<listVars, count, maxCount, mutex, condVars, locals>>
        /\ \/ /\ count <= maxCount /\ status' = status
              /\ pc' = [pc EXCEPT !["writer"] = "link"] /\ Step("writer", "enter", "link")
           \/ /\ count > maxCount /\ status' = "assertion_failed" /\ pc' = pc
    BY <1>8 DEF AddEnter, Step, Die
  <2>2. /\ pc'["writer"] \in {"enter", "link"} /\ \A u \in Threads \ {"writer"} : pc'[u] = pc[u]
        /\ pc'["writer"] = "link" => count <= maxCount
    BY <2>0, <2>1 DEF ControlInv, Threads, Workers
  <2>3. TypeOK'
    <3>1. stats' \in [Counters -> CLong]
      BY <1>8, <2>0, BumpType DEF AddEnter, Counters, TypeOK, QueueTypeOK
    <3> QED
      BY <2>0, <2>1, <3>1
      DEF TypeOK, QueueTypeOK, ListTypeOK, ProgramTypeOK, Statuses,
          WriterPoints, Threads, Workers, listVars, locals, condVars
  <2>4. LockInv'
    <3>1. CASE Step("writer", "enter", "link")
      BY <2>0, <2>1, <3>1, LockKept DEF InsidePoints, Threads, Workers, condVars
    <3>2. CASE pc' = pc
      BY <2>0, <2>1, <3>2 DEF LockInv, condVars
    <3> QED
      BY <2>1, <3>1, <3>2
  <2>5. BirthInv'
    BY <2>0, <2>1, <2>2 DEF BirthInv, Threads, Workers
  <2>6. TurnInv' /\ TestedInv' /\ CountInv' /\ NoLostWakeup'
    <3>1. UNCHANGED <<count, maxCount, waiters, flagCanShareData>> /\ Len(chain') = Len(chain)
      BY <2>1 DEF listVars, condVars
    <3>2. pc'["reader"] = pc["reader"]
      BY <2>2 DEF Threads, Workers
    <3>3. TestedInv'
      BY <2>0, <2>1, <2>2, <3>1, <3>2, ControlFacts DEF Inv, TestedInv
    <3>4. CountInv'
      BY <2>0, <2>1, <2>2, <3>1, <3>2, ControlFacts DEF Inv, CountInv
    <3>5. TurnInv'
      BY <2>0, <3>1 DEF Inv, TurnInv
    <3>6. NoLostWakeup'
      BY <2>0, <2>1, <2>2, <3>1, <3>2 DEF Inv, NoLostWakeup, AddBlocked, GetBlocked
    <3> QED
      BY <3>3, <3>4, <3>5, <3>6
  <2>7. ReaderInv' /\ accepted' = accepted /\ delivered' = delivered
    BY <2>0, <2>1, <2>2
    DEF Inv, ReaderInv, accepted, delivered, Threads, Workers, locals
  <2>8. ListIntact' /\ ValuesInv'
    BY <2>0, <2>1, <2>7, ListFrame DEF Inv, ValuesInv
  <2> QED
    BY <2>3, <2>4, <2>5, <2>6, <2>7, <2>8 DEF Inv
<1>9. CASE AddLink
  <2>0. ControlInv /\ LockInv /\ BirthInv /\ Inv /\ TypeOK
    BY ControlFacts DEF Inv
  <2>1. /\ pc["writer"] = "link" /\ pc' = [pc EXCEPT !["writer"] = "tally"]
        /\ Step("writer", "link", "tally")
        /\ UNCHANGED <<count, maxCount, stats, locals, status, mutex, condVars>>
    BY <1>9 DEF AddLink, Step
  <2>2. pc'["writer"] = "tally" /\ \A u \in Threads \ {"writer"} : pc'[u] = pc[u]
    BY <2>0, <2>1 DEF ControlInv, Threads, Workers
  <2>3. PICK n \in Node \ heap : Link(n, i)
    BY <1>9 DEF AddLink
  <2>4. /\ ListTypeOK' /\ ListIntact' /\ chain' # <<>>
        /\ Len(chain') = Len(chain) + 1
    BY <2>0, <2>3, LinkAppends DEF Inv, TypeOK, QueueTypeOK, ProgramTypeOK
  <2>5. TypeOK'
    BY <2>0, <2>1, <2>4
    DEF TypeOK, QueueTypeOK, ProgramTypeOK, WriterPoints, Threads, Workers, locals, condVars
  <2>6. LockInv'
    BY <2>0, <2>1, LockKept DEF InsidePoints, Threads, Workers, condVars
  <2>7. BirthInv'
    BY <2>0, <2>1, <2>2 DEF BirthInv, Threads, Workers
  <2>8. TurnInv' /\ TestedInv' /\ CountInv' /\ NoLostWakeup'
    <3>1. pc'["reader"] = pc["reader"] /\ pc["reader"] # "tally"
      BY <2>0, <2>1, <2>2, MutualExclusion DEF Threads, Workers, InsidePoints
    <3>2. CountInv'
      BY <2>0, <2>1, <2>2, <2>4, <3>1, ControlFacts DEF Inv, CountInv
    <3> QED
      BY <2>0, <2>1, <2>2, <3>1, <3>2
      DEF Inv, TurnInv, TestedInv, NoLostWakeup, AddBlocked, GetBlocked, condVars
  <2>9. ReaderInv' /\ ValuesInv'
    <3>1. accepted = i /\ accepted' = NextInt(i) /\ delivered' = delivered /\ ReaderInv'
      BY <2>0, <2>1, <2>2
      DEF Inv, accepted, delivered, ReaderInv, Threads, Workers, locals
    <3>2. delivered \in CInt /\ i \in CInt
      BY <2>0, NextIntType DEF delivered, TypeOK, ProgramTypeOK
    <3>3. ValuesBetween(delivered, i)
      BY <2>0, <3>1 DEF Inv, ValuesInv
    <3> QED
      BY <2>0, <2>3, <2>4, <3>1, <3>2, <3>3, LinkExtendsValues
      DEF Inv, ValuesInv, ValuesBetween, TypeOK, QueueTypeOK
  <2> QED
    BY <2>4, <2>5, <2>6, <2>7, <2>8, <2>9 DEF Inv
<1>10. CASE AddNoMemory
  <2>1. /\ UNCHANGED <<listVars, pc, mutex, maxCount, count, stats, locals, condVars>>
        /\ status' = "out_of_memory"
    BY <1>10 DEF AddNoMemory, Die, queueVars, listVars
  <2> QED
    BY <2>1, HaltKeepsInv DEF Statuses
<1> QED
  BY <1>1, <1>2, <1>3, <1>4, <1>5, <1>6, <1>7, <1>8, <1>9, <1>10 DEF Writer

(* queueGet's assertion holds: count is never below zero. *)
LEMMA GetEnterPasses ==
  ASSUME Inv, GetEnter
  PROVE  /\ Step("reader", "enter", "test")
         /\ stats' = Bump("getAttempts")
         /\ UNCHANGED <<maxCount, count, listVars, locals, status, mutex, condVars>>
<1>1. count >= 0
  BY DEF Inv, TurnInv
<1> QED
  BY <1>1 DEF GetEnter, Inv, TurnInv

LEMMA ReaderKeepsInv == Inv /\ Reader => Inv'
<1> SUFFICES ASSUME Inv, Reader PROVE Inv'
  OBVIOUS
<1>1. CASE GetLock
  <2>0. ControlInv /\ LockInv /\ BirthInv /\ Inv /\ TypeOK
    BY ControlFacts DEF Inv
  <2>1. /\ pc["reader"] = "lock" /\ pc' = [pc EXCEPT !["reader"] = "enter"]
        /\ UNCHANGED listVars
    BY <1>1 DEF GetLock, Lock, Unlock, Wait, Step, queueVars, listVars
  <2>2. pc'["reader"] = "enter" /\ \A u \in Threads \ {"reader"} : pc'[u] = pc[u]
    BY <2>0, <2>1 DEF ControlInv, Threads, Workers
  <2>3. TypeOK'
    BY <1>1, <2>0, <2>1
    DEF GetLock, Lock, Unlock, Wait, Step, TypeOK, QueueTypeOK, ListTypeOK, ProgramTypeOK,
        ReaderPoints, Threads, Workers, listVars, queueVars, locals, condVars
  <2>4. LockInv'
    BY <1>1, <2>0, <2>1, LockTaken DEF GetLock, InsidePoints, LockInv, Workers, condVars
  <2>5. BirthInv'
    BY <2>0, <2>1, <2>2 DEF BirthInv, Threads, Workers
  <2>6. TurnInv' /\ TestedInv' /\ CountInv' /\ NoLostWakeup'
    BY <1>1, <2>0, <2>1, <2>2, ControlFacts, MutualExclusion
    DEF GetLock, Inv, Wait, Lock, Unlock, TurnInv, TestedInv, CountInv, NoLostWakeup, AddBlocked, GetBlocked,
        Threads, Workers, InsidePoints, LockInv, listVars, queueVars, condVars,
        ALLOW_SHARE, PROHIBIT_SHARE
  <2>7. ReaderInv' /\ accepted' = accepted /\ delivered' = delivered
    BY <1>1, <2>0, <2>1, <2>2
    DEF GetLock, Inv, Wait, Lock, Unlock, ReaderInv, accepted, delivered, Threads, Workers, locals
  <2>8. ListIntact' /\ ValuesInv'
    BY <2>0, <2>1, <2>7, ListFrame DEF Inv, ValuesInv
  <2> QED
    BY <2>3, <2>4, <2>5, <2>6, <2>7, <2>8 DEF Inv
<1>2. CASE GetEnter
  <2>0. ControlInv /\ LockInv /\ BirthInv /\ Inv /\ TypeOK
    BY ControlFacts DEF Inv
  <2>a. /\ Step("reader", "enter", "test")
        /\ stats' = Bump("getAttempts")
        /\ UNCHANGED <<maxCount, count, listVars, locals, status, mutex, condVars>>
    BY <1>2, <2>0, GetEnterPasses
  <2>1. /\ pc["reader"] = "enter" /\ pc' = [pc EXCEPT !["reader"] = "test"]
        /\ UNCHANGED listVars
    BY <2>a DEF Lock, Unlock, Wait, Step, queueVars, listVars
  <2>2. pc'["reader"] = "test" /\ \A u \in Threads \ {"reader"} : pc'[u] = pc[u]
    BY <2>0, <2>1 DEF ControlInv, Threads, Workers
  <2>3. TypeOK'
    <3>1. stats' \in [Counters -> CLong]
      BY <2>a, <2>0, BumpType DEF Counters, TypeOK, QueueTypeOK
    <3> QED
      BY <2>a, <2>0, <2>1, <3>1
      DEF TypeOK, QueueTypeOK, ListTypeOK, ProgramTypeOK,
          ReaderPoints, Threads, Workers, listVars, locals, condVars
  <2>4. LockInv'
    BY <2>a, <2>0, LockKept DEF InsidePoints, FieldNames, Counters, Threads, Workers, condVars
  <2>5. BirthInv'
    BY <2>0, <2>1, <2>2 DEF BirthInv, Threads, Workers
  <2>6. TurnInv' /\ TestedInv' /\ CountInv' /\ NoLostWakeup'
    BY <2>a, <2>0, <2>1, <2>2, ControlFacts, MutualExclusion
    DEF Inv, Wait, Lock, Unlock, TurnInv, TestedInv, CountInv, NoLostWakeup, AddBlocked, GetBlocked,
        Threads, Workers, InsidePoints, LockInv, listVars, queueVars, condVars,
        ALLOW_SHARE, PROHIBIT_SHARE
  <2>7. ReaderInv' /\ accepted' = accepted /\ delivered' = delivered
    BY <2>a, <2>0, <2>1, <2>2
    DEF Inv, Wait, Lock, Unlock, ReaderInv, accepted, delivered, Threads, Workers, locals
  <2>8. ListIntact' /\ ValuesInv'
    BY <2>0, <2>1, <2>7, ListFrame DEF Inv, ValuesInv
  <2> QED
    BY <2>3, <2>4, <2>5, <2>6, <2>7, <2>8 DEF Inv
<1>3. CASE GetWait
  <2>0. ControlInv /\ LockInv /\ BirthInv /\ Inv /\ TypeOK
    BY ControlFacts DEF Inv
  <2>1. /\ pc["reader"] = "test" /\ pc' = [pc EXCEPT !["reader"] = "wait"]
        /\ UNCHANGED listVars
    BY <1>3 DEF GetWait, Lock, Unlock, Wait, Step, queueVars, listVars
  <2>2. pc'["reader"] = "wait" /\ \A u \in Threads \ {"reader"} : pc'[u] = pc[u]
    BY <2>0, <2>1 DEF ControlInv, Threads, Workers
  <2>3. TypeOK'
    BY <1>3, <2>0, <2>1
    DEF GetWait, Lock, Unlock, Wait, Step, TypeOK, QueueTypeOK, ListTypeOK, ProgramTypeOK,
        ReaderPoints, Threads, Workers, listVars, queueVars, locals, condVars
  <2>4. LockInv'
    BY <1>3, <2>0, LockWaited DEF GetWait, Workers
  <2>5. BirthInv'
    BY <2>0, <2>1, <2>2 DEF BirthInv, Threads, Workers
  <2>6. TurnInv' /\ TestedInv' /\ CountInv' /\ NoLostWakeup'
    BY <1>3, <2>0, <2>1, <2>2, ControlFacts, MutualExclusion
    DEF GetWait, Inv, Wait, Lock, Unlock, TurnInv, TestedInv, CountInv, NoLostWakeup, AddBlocked, GetBlocked,
        Threads, Workers, InsidePoints, LockInv, listVars, queueVars, condVars,
        ALLOW_SHARE, PROHIBIT_SHARE
  <2>7. ReaderInv' /\ accepted' = accepted /\ delivered' = delivered
    BY <1>3, <2>0, <2>1, <2>2
    DEF GetWait, Inv, Wait, Lock, Unlock, ReaderInv, accepted, delivered, Threads, Workers, locals
  <2>8. ListIntact' /\ ValuesInv'
    BY <2>0, <2>1, <2>7, ListFrame DEF Inv, ValuesInv
  <2> QED
    BY <2>3, <2>4, <2>5, <2>6, <2>7, <2>8 DEF Inv
<1>4. CASE GetRewake
  <2>0. ControlInv /\ LockInv /\ BirthInv /\ Inv /\ TypeOK
    BY ControlFacts DEF Inv
  <2>1. /\ pc["reader"] = "wait" /\ pc' = [pc EXCEPT !["reader"] = "test"]
        /\ UNCHANGED listVars
    BY <1>4 DEF GetRewake, Rewake, Lock, Unlock, Wait, Step, queueVars, listVars
  <2>2. pc'["reader"] = "test" /\ \A u \in Threads \ {"reader"} : pc'[u] = pc[u]
    BY <2>0, <2>1 DEF ControlInv, Threads, Workers
  <2>3. TypeOK'
    BY <1>4, <2>0, <2>1
    DEF GetRewake, Rewake, Lock, Unlock, Wait, Step, TypeOK, QueueTypeOK, ListTypeOK, ProgramTypeOK,
        ReaderPoints, Threads, Workers, listVars, queueVars, locals, condVars
  <2>4. LockInv'
    BY <1>4, <2>0, LockTaken DEF GetRewake, Rewake, InsidePoints, LockInv, Workers, condVars
  <2>5. BirthInv'
    BY <2>0, <2>1, <2>2 DEF BirthInv, Threads, Workers
  <2>6. TurnInv' /\ TestedInv' /\ CountInv' /\ NoLostWakeup'
    BY <1>4, <2>0, <2>1, <2>2, ControlFacts, MutualExclusion
    DEF GetRewake, Rewake, Inv, Wait, Lock, Unlock, TurnInv, TestedInv, CountInv, NoLostWakeup, AddBlocked, GetBlocked,
        Threads, Workers, InsidePoints, LockInv, listVars, queueVars, condVars,
        ALLOW_SHARE, PROHIBIT_SHARE
  <2>7. ReaderInv' /\ accepted' = accepted /\ delivered' = delivered
    BY <1>4, <2>0, <2>1, <2>2
    DEF GetRewake, Rewake, Inv, Wait, Lock, Unlock, ReaderInv, accepted, delivered, Threads, Workers, locals
  <2>8. ListIntact' /\ ValuesInv'
    BY <2>0, <2>1, <2>7, ListFrame DEF Inv, ValuesInv
  <2> QED
    BY <2>3, <2>4, <2>5, <2>6, <2>7, <2>8 DEF Inv
<1>5. CASE GetTest
  <2>0. ControlInv /\ LockInv /\ BirthInv /\ Inv /\ TypeOK
    BY ControlFacts DEF Inv
  <2>1. /\ pc["reader"] = "test" /\ pc' = [pc EXCEPT !["reader"] = "take"]
        /\ UNCHANGED listVars
    BY <1>5 DEF GetTest, Lock, Unlock, Wait, Step, queueVars, listVars
  <2>2. pc'["reader"] = "take" /\ \A u \in Threads \ {"reader"} : pc'[u] = pc[u]
    BY <2>0, <2>1 DEF ControlInv, Threads, Workers
  <2>3. TypeOK'
    BY <1>5, <2>0, <2>1
    DEF GetTest, Lock, Unlock, Wait, Step, TypeOK, QueueTypeOK, ListTypeOK, ProgramTypeOK,
        ReaderPoints, Threads, Workers, listVars, queueVars, locals, condVars
  <2>4. LockInv'
    BY <1>5, <2>0, LockKept DEF GetTest, InsidePoints, FieldNames, Counters, Threads, Workers, condVars
  <2>5. BirthInv'
    BY <2>0, <2>1, <2>2 DEF BirthInv, Threads, Workers
  <2>6. TurnInv' /\ TestedInv' /\ CountInv' /\ NoLostWakeup'
    <3>1. UNCHANGED <<count, maxCount, waiters, flagCanShareData>> /\ Len(chain') = Len(chain)
      BY <1>5 DEF GetTest, queueVars, listVars, condVars
    <3>2. count = 1
      BY <1>5, <2>0, ControlFacts DEF GetTest, GetBlocked, Inv, TurnInv
    <3>3. pc'["writer"] = pc["writer"]
          /\ pc["writer"] \notin {"enter", "link", "tally", "signal"}
      BY <2>0, <2>1, <2>2, MutualExclusion DEF InsidePoints, Threads, Workers
    <3>4. TestedInv' /\ TurnInv'
      BY <2>0, <2>2, <3>1, <3>2, <3>3 DEF Inv, TestedInv, TurnInv
    <3>5. CountInv'
      BY <2>0, <2>1, <2>2, <3>1, <3>3, ControlFacts DEF Inv, CountInv
    <3>6. NoLostWakeup'
      BY <2>0, <2>1, <2>2, <3>1, <3>3 DEF Inv, NoLostWakeup, AddBlocked, GetBlocked
    <3> QED
      BY <3>4, <3>5, <3>6
  <2>7. ReaderInv' /\ accepted' = accepted /\ delivered' = delivered
    BY <1>5, <2>0, <2>1, <2>2
    DEF GetTest, Inv, Wait, Lock, Unlock, ReaderInv, accepted, delivered, Threads, Workers, locals
  <2>8. ListIntact' /\ ValuesInv'
    BY <2>0, <2>1, <2>7, ListFrame DEF Inv, ValuesInv
  <2> QED
    BY <2>3, <2>4, <2>5, <2>6, <2>7, <2>8 DEF Inv
<1>6. CASE GetTake
  <2>0. ControlInv /\ LockInv /\ BirthInv /\ Inv /\ TypeOK
    BY ControlFacts DEF Inv
  <2>1. /\ pc["reader"] = "take" /\ pc' = [pc EXCEPT !["reader"] = "tally"]
        /\ Step("reader", "take", "tally") /\ Unlink /\ got' = val[first]
        /\ UNCHANGED <<count, maxCount, stats, i, expected, snap, status, mutex, condVars>>
    BY <1>6 DEF GetTake, Step
  <2>2. pc'["reader"] = "tally" /\ \A u \in Threads \ {"reader"} : pc'[u] = pc[u]
    BY <2>0, <2>1 DEF ControlInv, Threads, Workers
  <2>3. pc["writer"] # "tally" /\ pc'["writer"] = pc["writer"]
    BY <2>0, <2>1, <2>2, MutualExclusion DEF InsidePoints, Threads, Workers
  <2>4. count = 1 /\ Len(chain) = 1 /\ chain # <<>>
    BY <2>0, <2>1, <2>3, ControlFacts, EmptySeq DEF Inv, TestedInv, CountInv
  <2>5. /\ ListTypeOK' /\ ListIntact' /\ first \in Node
        /\ Len(chain') = Len(chain) - 1
    BY <2>0, <2>1, <2>4, UnlinkRemoves DEF Inv, TypeOK, QueueTypeOK
  <2>6. TypeOK'
    BY <2>0, <2>1, <2>5
    DEF TypeOK, QueueTypeOK, ListTypeOK, ProgramTypeOK, ReaderPoints, Threads, Workers, condVars
  <2>7. LockInv'
    BY <2>0, <2>1, LockKept DEF InsidePoints, Threads, Workers, condVars
  <2>8. BirthInv'
    BY <2>0, <2>1, <2>2 DEF BirthInv, Threads, Workers
  <2>9. TurnInv' /\ TestedInv' /\ CountInv' /\ NoLostWakeup'
    <3>1. UNCHANGED <<count, maxCount, flagCanShareData, waiters>>
      BY <2>1 DEF condVars
    <3>2. CountInv'
      BY <2>2, <2>3, <2>4, <2>5, <3>1 DEF CountInv
    <3> QED
      BY <2>0, <2>1, <2>2, <2>3, <2>4, <3>1, <3>2
      DEF Inv, TurnInv, TestedInv, NoLostWakeup, AddBlocked, GetBlocked
  <2>10. ReaderInv' /\ ValuesInv'
    <3>1. delivered = expected /\ delivered' = NextInt(got') /\ accepted' = accepted
      BY <2>1, <2>2, <2>3 DEF accepted, delivered
    <3>2. ValuesBetween(expected, accepted)
      BY <2>0, <3>1 DEF Inv, ValuesInv
    <3>3. got' = expected
      BY <2>0, <2>1, <2>4, <3>2, UnlinkShortensValues DEF Inv, TypeOK, QueueTypeOK
    <3>4. ValuesInv'
      BY <2>0, <2>1, <2>4, <3>1, <3>2, <3>3, UnlinkShortensValues
      DEF Inv, ValuesInv, ValuesBetween, TypeOK, QueueTypeOK
    <3> QED
      BY <2>1, <3>3, <3>4 DEF ReaderInv
  <2> QED
    BY <2>5, <2>6, <2>7, <2>8, <2>9, <2>10 DEF Inv
<1>7. CASE GetTally
  <2>0. ControlInv /\ LockInv /\ BirthInv /\ Inv /\ TypeOK
    BY ControlFacts DEF Inv
  <2>1. /\ pc["reader"] = "tally" /\ pc' = [pc EXCEPT !["reader"] = "signal"]
        /\ UNCHANGED listVars
    BY <1>7 DEF GetTally, TallyGet, Lock, Unlock, Wait, Step, queueVars, listVars
  <2>2. pc'["reader"] = "signal" /\ \A u \in Threads \ {"reader"} : pc'[u] = pc[u]
    BY <2>0, <2>1 DEF ControlInv, Threads, Workers
  <2>3. TypeOK'
    <3>1. stats' \in [Counters -> CLong]
      BY <1>7, <2>0, BumpType DEF GetTally, TallyGet, Counters, TypeOK, QueueTypeOK
    <3>2. count' \in Int /\ flagCanShareData' \in Int
      BY <1>7, <2>0, ControlFacts DEF GetTally, TallyGet, ALLOW_SHARE, PROHIBIT_SHARE
    <3> QED
      BY <1>7, <2>0, <2>1, <3>1, <3>2
      DEF GetTally, TypeOK, QueueTypeOK, ListTypeOK, ProgramTypeOK,
          ReaderPoints, Threads, Workers, listVars, locals
  <2>4. LockInv'
    BY <1>7, <2>0, LockKept DEF GetTally, TallyGet, InsidePoints, FieldNames, Counters, Threads, Workers, condVars
  <2>5. BirthInv'
    BY <2>0, <2>1, <2>2 DEF BirthInv, Threads, Workers
  <2>6. TurnInv' /\ TestedInv' /\ CountInv' /\ NoLostWakeup'
    <3>1. /\ count = 1 /\ count' = 0 /\ flagCanShareData' = ALLOW_SHARE
          /\ maxCount' = maxCount /\ waiters' = waiters
      BY <1>7, <2>0, <2>1 DEF GetTally, TallyGet, Inv, TestedInv
    <3>2. /\ "reader" \notin waiters
          /\ pc["writer"] \notin {"enter", "link", "take", "tally", "signal"}
      BY <2>0, <2>1, MutualExclusion DEF LockInv, InsidePoints, Workers
    <3>3. pc'["writer"] = pc["writer"]
      BY <2>2 DEF Threads, Workers
    <3>4. TurnInv' /\ TestedInv' /\ NoLostWakeup'
      BY <2>2, <3>1, <3>2, <3>3
      DEF TurnInv, TestedInv, NoLostWakeup, AddBlocked, GetBlocked, ALLOW_SHARE,
          PROHIBIT_SHARE
    <3>5. Len(chain') = Len(chain) /\ CountInv
      BY <2>0, <2>1 DEF Inv, listVars
    <3>6. CountInv'
      BY <2>0, <2>1, <2>2, <3>1, <3>2, <3>3, <3>5, ControlFacts DEF CountInv
    <3> QED
      BY <3>4, <3>6
  <2>7. ReaderInv' /\ accepted' = accepted /\ delivered' = delivered
    BY <1>7, <2>0, <2>1, <2>2
    DEF GetTally, TallyGet, Inv, Wait, Lock, Unlock, ReaderInv, accepted, delivered, Threads, Workers, locals
  <2>8. ListIntact' /\ ValuesInv'
    BY <2>0, <2>1, <2>7, ListFrame DEF Inv, ValuesInv
  <2> QED
    BY <2>3, <2>4, <2>5, <2>6, <2>7, <2>8 DEF Inv
<1>8. CASE Signal("reader")
  <2>0. ControlInv /\ LockInv /\ BirthInv /\ Inv /\ TypeOK
    BY ControlFacts DEF Inv
  <2>1. /\ pc["reader"] = "signal" /\ pc' = [pc EXCEPT !["reader"] = "unlock"]
        /\ UNCHANGED listVars
    BY <1>8 DEF Signal, Lock, Unlock, Wait, Step, queueVars, listVars
  <2>2. pc'["reader"] = "unlock" /\ \A u \in Threads \ {"reader"} : pc'[u] = pc[u]
    BY <2>0, <2>1 DEF ControlInv, Threads, Workers
  <2>3. TypeOK'
    <3>1. waiters' \subseteq waiters
      BY <1>8 DEF Signal
    <3> QED
      BY <1>8, <2>0, <2>1, <3>1
      DEF Signal, TypeOK, QueueTypeOK, ListTypeOK, ProgramTypeOK,
          ReaderPoints, Threads, Workers, listVars, queueVars, locals
  <2>4. LockInv'
    BY <1>8, <2>0, LockKept DEF Signal, InsidePoints, FieldNames, Counters, Threads, Workers, condVars
  <2>5. BirthInv'
    BY <2>0, <2>1, <2>2 DEF BirthInv, Threads, Workers
  <2>6. TurnInv' /\ TestedInv' /\ CountInv' /\ NoLostWakeup'
    <3>1. /\ UNCHANGED <<count, flagCanShareData, maxCount>>
          /\ waiters' \subseteq waiters
      BY <1>8 DEF Signal, queueVars
    <3>2. "reader" \notin waiters /\ pc["writer"] \notin {"tally", "signal"}
      BY <2>0, <2>1, MutualExclusion DEF LockInv, InsidePoints, Workers
    <3>3. waiters \subseteq {"writer"}
      BY <2>0, <3>2 DEF TypeOK
    <3>4. waiters' = {}
      <4>1. CASE waiters = {}
        BY <3>1, <4>1
      <4>2. CASE waiters # {}
        <5>1. PICK w \in waiters : waiters' = waiters \ {w}
          BY <1>8, <4>2 DEF Signal
        <5> QED
          BY <3>3, <5>1
      <4> QED
        BY <4>1, <4>2
    <3>5. pc'["writer"] = pc["writer"]
      BY <2>2 DEF Threads, Workers
    <3>6. TurnInv' /\ TestedInv' /\ NoLostWakeup'
      BY <2>0, <2>1, <2>2, <3>1, <3>4, <3>5 DEF Inv, TurnInv, TestedInv, NoLostWakeup
    <3>7. CountInv'
      BY <2>0, <2>1, <2>2, <3>1, <3>2, <3>5 DEF Inv, CountInv, listVars
    <3> QED
      BY <3>6, <3>7
  <2>7. ReaderInv' /\ accepted' = accepted /\ delivered' = delivered
    BY <1>8, <2>0, <2>1, <2>2
    DEF Signal, Inv, Wait, Lock, Unlock, ReaderInv, accepted, delivered, Threads, Workers, locals
  <2>8. ListIntact' /\ ValuesInv'
    BY <2>0, <2>1, <2>7, ListFrame DEF Inv, ValuesInv
  <2> QED
    BY <2>3, <2>4, <2>5, <2>6, <2>7, <2>8 DEF Inv
<1>9. CASE GetUnlock
  <2>0. ControlInv /\ LockInv /\ BirthInv /\ Inv /\ TypeOK
    BY ControlFacts DEF Inv
  <2>1. /\ pc["reader"] = "unlock" /\ pc' = [pc EXCEPT !["reader"] = "check"]
        /\ UNCHANGED listVars
    BY <1>9 DEF GetUnlock, Lock, Unlock, Wait, Step, queueVars, listVars
  <2>2. pc'["reader"] = "check" /\ \A u \in Threads \ {"reader"} : pc'[u] = pc[u]
    BY <2>0, <2>1 DEF ControlInv, Threads, Workers
  <2>3. TypeOK'
    BY <1>9, <2>0, <2>1
    DEF GetUnlock, Lock, Unlock, Wait, Step, TypeOK, QueueTypeOK, ListTypeOK, ProgramTypeOK,
        ReaderPoints, Threads, Workers, listVars, queueVars, locals, condVars
  <2>4. LockInv'
    BY <1>9, <2>0, LockReleased DEF GetUnlock, InsidePoints, FieldNames, Counters, Workers, condVars
  <2>5. BirthInv'
    BY <2>0, <2>1, <2>2 DEF BirthInv, Threads, Workers
  <2>6. TurnInv' /\ TestedInv' /\ CountInv' /\ NoLostWakeup'
    BY <1>9, <2>0, <2>1, <2>2, ControlFacts, MutualExclusion
    DEF GetUnlock, Inv, Wait, Lock, Unlock, TurnInv, TestedInv, CountInv, NoLostWakeup, AddBlocked, GetBlocked,
        Threads, Workers, InsidePoints, LockInv, listVars, queueVars, condVars,
        ALLOW_SHARE, PROHIBIT_SHARE
  <2>7. ReaderInv' /\ accepted' = accepted /\ delivered' = delivered
    BY <1>9, <2>0, <2>1, <2>2
    DEF GetUnlock, Inv, Wait, Lock, Unlock, ReaderInv, accepted, delivered, Threads, Workers, locals
  <2>8. ListIntact' /\ ValuesInv'
    BY <2>0, <2>1, <2>7, ListFrame DEF Inv, ValuesInv
  <2> QED
    BY <2>3, <2>4, <2>5, <2>6, <2>7, <2>8 DEF Inv
<1>10. CASE GetCheck
  <2>0. ControlInv /\ LockInv /\ BirthInv /\ Inv /\ TypeOK
    BY ControlFacts DEF Inv
  <2>1. /\ pc["reader"] = "check" /\ pc' = [pc EXCEPT !["reader"] = "lock"]
        /\ UNCHANGED listVars
    BY <1>10 DEF GetCheck, ReaderChecks, Lock, Unlock, Wait, Step, queueVars, listVars
  <2>2. pc'["reader"] = "lock" /\ \A u \in Threads \ {"reader"} : pc'[u] = pc[u]
    BY <2>0, <2>1 DEF ControlInv, Threads, Workers
  <2>3. TypeOK'
    <3>1. expected' \in CInt
      BY <1>10, <2>0, NextIntType DEF GetCheck, ReaderChecks, TypeOK, ProgramTypeOK
    <3> QED
      BY <1>10, <2>0, <2>1, <3>1
      DEF GetCheck, TypeOK, QueueTypeOK, ListTypeOK, ProgramTypeOK,
          ReaderPoints, Threads, Workers, listVars, queueVars, condVars
  <2>4. LockInv'
    BY <1>10, <2>0, LockKept DEF GetCheck, ReaderChecks, InsidePoints, FieldNames, Counters, Threads, Workers, condVars
  <2>5. BirthInv'
    BY <2>0, <2>1, <2>2 DEF BirthInv, Threads, Workers
  <2>6. TurnInv' /\ TestedInv' /\ CountInv' /\ NoLostWakeup'
    BY <1>10, <2>0, <2>1, <2>2, ControlFacts, MutualExclusion
    DEF GetCheck, ReaderChecks, Inv, Wait, Lock, Unlock, TurnInv, TestedInv, CountInv, NoLostWakeup, AddBlocked, GetBlocked,
        Threads, Workers, InsidePoints, LockInv, listVars, queueVars, condVars,
        ALLOW_SHARE, PROHIBIT_SHARE
  <2>7. ReaderInv' /\ accepted' = accepted /\ delivered' = delivered
    BY <1>10, <2>0, <2>1, <2>2
    DEF GetCheck, ReaderChecks, Inv, Wait, Lock, Unlock, ReaderInv, accepted, delivered, Threads, Workers, locals
  <2>8. ListIntact' /\ ValuesInv'
    BY <2>0, <2>1, <2>7, ListFrame DEF Inv, ValuesInv
  <2> QED
    BY <2>3, <2>4, <2>5, <2>6, <2>7, <2>8 DEF Inv
<1> QED
  BY <1>1, <1>2, <1>3, <1>4, <1>5, <1>6, <1>7, <1>8, <1>9, <1>10 DEF Reader

(* The monitor touches nothing but its copies and the mutex. *)
LEMMA MonitorKeepsRest ==
  ASSUME Inv, NEW from, NEW to, from # "unborn", Step("monitor", from, to),
         to \in MonitorPoints, LockInv', mutex' \in Workers \cup {NoOne},
         snap' \in [FieldNames -> Int],
         UNCHANGED <<queueVars, i, expected, got, status, condVars>>
  PROVE  Inv'
<1>1. /\ TypeOK /\ ControlInv /\ BirthInv
      /\ UNCHANGED <<listVars, maxCount, count, stats>>
  BY ControlFacts DEF Inv, queueVars, listVars
<1>2. /\ pc' = [pc EXCEPT !["monitor"] = to]
      /\ \A u \in Threads \ {"monitor"} : pc'[u] = pc[u]
  BY <1>1 DEF Step, ControlInv, Threads, Workers
<1>3. TypeOK'
  BY <1>1, <1>2
  DEF TypeOK, QueueTypeOK, ListTypeOK, ProgramTypeOK, Threads, Workers, listVars,
      condVars
<1>4. BirthInv'
  BY <1>1, BirthKept DEF Workers
<1>5. TurnInv' /\ TestedInv' /\ CountInv' /\ NoLostWakeup'
  BY <1>1, <1>2
  DEF Inv, TurnInv, TestedInv, CountInv, NoLostWakeup, AddBlocked, GetBlocked,
      Threads, Workers, listVars, condVars
<1>6. ReaderInv' /\ accepted' = accepted /\ delivered' = delivered
  BY <1>2 DEF Inv, ReaderInv, accepted, delivered, Threads, Workers
<1>7. ListIntact' /\ ValuesInv'
  BY <1>1, <1>6, ListFrame DEF Inv, ValuesInv
<1> QED
  BY <1>3, <1>4, <1>5, <1>6, <1>7 DEF Inv

LEMMA MonitorKeepsInv == Inv /\ Monitor => Inv'
<1> SUFFICES ASSUME Inv, Monitor PROVE Inv'
  OBVIOUS
<1>0. ControlInv /\ LockInv /\ TypeOK
  BY ControlFacts DEF Inv
<1>1. \A k \in 1 .. 5 : Fields[k] \in FieldNames
  BY DEF Fields, FieldNames, Counters
<1>2. FieldNames \subseteq MonitorPoints /\ FieldNames \subseteq InsidePoints
      /\ "unborn" \notin FieldNames /\ "lock" \notin FieldNames /\ "wait" \notin FieldNames
  BY DEF MonitorPoints, InsidePoints, FieldNames, Counters
<1>3. CASE StatsLock
  <2>1. /\ Lock("monitor", "lock", Fields[1])
        /\ UNCHANGED <<queueVars, locals, status, condVars>>
        /\ Step("monitor", "lock", Fields[1]) /\ mutex' = "monitor"
    BY <1>3 DEF StatsLock, Lock
  <2>2. "monitor" \notin waiters
    BY <1>0 DEF TypeOK
  <2>3. LockInv'
    BY <1>0, <1>1, <1>2, <2>1, <2>2, LockTaken DEF Workers, condVars
  <2> QED
    BY <1>0, <1>1, <1>2, <2>1, <2>3, MonitorKeepsRest
    DEF Workers, locals, TypeOK, ProgramTypeOK
<1>4. CASE StatsRead
  <2>1. PICK k \in 1 .. 5 :
          /\ Step("monitor", Fields[k], IF k = 5 THEN "unlock" ELSE Fields[k + 1])
          /\ ReadField(k)
    BY <1>4 DEF StatsRead
  <2> DEFINE to == IF k = 5 THEN "unlock" ELSE Fields[k + 1]
  <2>2. to \in MonitorPoints /\ to \in InsidePoints /\ Fields[k] \in FieldNames
    <3>1. CASE k = 5
      BY <1>1, <3>1 DEF MonitorPoints, InsidePoints
    <3>2. CASE k # 5
      BY <1>1, <1>2, <3>2
    <3> QED
      BY <3>1, <3>2
  <2>3. UNCHANGED <<queueVars, i, expected, got, status, mutex, condVars>>
    BY <1>4 DEF StatsRead
  <2>4. snap' \in [FieldNames -> Int]
    BY <1>0, <2>1, <2>2
    DEF ReadField, CLong, FieldNames, TypeOK, QueueTypeOK, ProgramTypeOK
  <2>5. Step("monitor", Fields[k], to)
    BY <2>1
  <2> HIDE DEF to
  <2>6. LockInv'
    BY <1>0, <1>2, <2>2, <2>3, <2>5, LockKept DEF Threads, Workers, condVars
  <2> QED
    BY <1>0, <1>2, <2>2, <2>3, <2>4, <2>5, <2>6, MonitorKeepsRest DEF TypeOK
<1>5. CASE StatsUnlock
  <2>1. /\ Unlock("monitor", "print") /\ mutex' = NoOne
        /\ Step("monitor", "unlock", "print")
        /\ UNCHANGED <<queueVars, locals, status, condVars>>
    BY <1>5 DEF StatsUnlock, Unlock
  <2>2. LockInv'
    BY <1>0, <2>1, LockReleased DEF Workers, InsidePoints, FieldNames, Counters, condVars
  <2> QED
    BY <1>0, <2>1, <2>2, MonitorKeepsRest
    DEF locals, MonitorPoints, TypeOK, ProgramTypeOK
<1>6. CASE StatsPrint
  <2>1. /\ Step("monitor", "print", "lock") /\ snap' = NoSnap
        /\ UNCHANGED <<queueVars, i, expected, got, status, mutex, condVars>>
    BY <1>6 DEF StatsPrint
  <2>2. LockInv'
    BY <1>0, <2>1, LockKept
    DEF Workers, Threads, InsidePoints, FieldNames, Counters, condVars
  <2>3. snap' \in [FieldNames -> Int]
    BY <2>1 DEF NoSnap
  <2> QED
    BY <1>0, <2>1, <2>2, <2>3, MonitorKeepsRest DEF MonitorPoints, TypeOK
<1> QED
  BY <1>3, <1>4, <1>5, <1>6 DEF Monitor

(* What main turns to once it has created t. *)
Successor(t) ==
  {nxt \in {"reader", "writer", "join"} :
     \/ t = "monitor" /\ nxt = "reader"
     \/ t = "reader" /\ nxt = "writer"
     \/ t = "writer" /\ nxt = "join"}

LEMMA MainKeepsInv == Inv /\ Main => Inv'
<1> SUFFICES ASSUME Inv, Main PROVE Inv'
  OBVIOUS
<1>0. ControlInv /\ LockInv /\ BirthInv /\ TypeOK
  BY ControlFacts DEF Inv
<1>1. UNCHANGED <<listVars, maxCount, count, stats, locals, mutex, condVars>>
  BY DEF Main, queueVars, listVars
<1>2. PICK t \in Workers :
        CreateFails(t) \/ \E nxt \in Successor(t) : Create(t, nxt, "lock")
  BY DEF Main, MainStep, Successor, Workers
<1>3. CASE CreateFails(t)
  BY <1>1, <1>3, HaltKeepsInv DEF CreateFails, Die, Statuses
<1>4. ASSUME NEW nxt \in Successor(t), Create(t, nxt, "lock")
      PROVE  Inv'
  <2>1. pc[t] = "unborn" /\ pc["main"] = t
    BY <1>0, <1>2, <1>4 DEF Create, BirthInv, Workers
  <2>2. /\ pc' = [pc EXCEPT !["main"] = nxt, ![t] = "lock"]
        /\ status' = status
    BY <1>4 DEF Create
  <2>3. TypeOK'
    BY <1>0, <1>1, <2>2
    DEF TypeOK, QueueTypeOK, ListTypeOK, ProgramTypeOK, listVars, locals, condVars,
        WriterPoints, ReaderPoints, MonitorPoints, MainPoints, Successor, Threads,
        Workers
  <2>4. BirthInv'
    BY <1>0, <2>1, <2>2 DEF BirthInv, Successor, ControlInv, Threads, Workers
  <2>5. /\ \A u \in Workers \ {t} : pc'[u] = pc[u]
        /\ pc'[t] = "lock"
    BY <1>0, <2>1, <2>2 DEF ControlInv, Threads, Workers
  <2>6. LockInv'
    BY <1>0, <1>1, <2>1, <2>5
    DEF LockInv, InsidePoints, FieldNames, Counters, condVars, TypeOK, Workers
  <2>7. TestedInv' /\ ReaderInv' /\ accepted' = accepted /\ delivered' = delivered
    BY <1>1, <2>1, <2>5
    DEF Inv, TestedInv, ReaderInv, accepted, delivered, locals, Workers
  <2>8. CountInv' /\ TurnInv'
    BY <1>1, <2>1, <2>5, ListFrame DEF Inv, CountInv, TurnInv, condVars, Workers
  <2>9. NoLostWakeup'
    <3>1. \A w \in {"writer", "reader"} :
            pc[w] = "signal" => pc'[w] = "signal"
      BY <2>1, <2>5 DEF Workers
    <3> QED
      BY <1>1, <3>1 DEF Inv, NoLostWakeup, AddBlocked, GetBlocked, condVars
  <2>10. ListIntact' /\ ValuesInv'
    BY <1>1, <2>7, ListFrame DEF Inv, ValuesInv
  <2> QED
    BY <2>3, <2>4, <2>6, <2>7, <2>8, <2>9, <2>10 DEF Inv
<1> QED
  BY <1>2, <1>3, <1>4

-----------------------------------------------------------------------------

LEMMA SpuriousKeepsInv == Inv /\ SpuriousWakeup => Inv'
<1> SUFFICES ASSUME Inv, SpuriousWakeup PROVE Inv'
  OBVIOUS
<1>1. /\ waiters' \subseteq waiters
      /\ UNCHANGED <<listVars, maxCount, count, stats, pc, locals, status, mutex,
                     flagCanShareData>>
  BY DEF SpuriousWakeup, queueVars, listVars, programVars, locals
<1>2. TypeOK'
  BY <1>1 DEF Inv, TypeOK, QueueTypeOK, ListTypeOK, ProgramTypeOK, listVars, locals
<1>3. LockInv' /\ BirthInv' /\ TurnInv' /\ TestedInv' /\ NoLostWakeup'
  BY <1>1 DEF Inv, LockInv, BirthInv, TurnInv, TestedInv, NoLostWakeup, AddBlocked,
              GetBlocked
<1>4. /\ ListIntact' /\ CountInv' /\ ReaderInv'
      /\ accepted' = accepted /\ delivered' = delivered
  BY <1>1, ListFrame DEF Inv, CountInv, ReaderInv, accepted, delivered, locals
<1>5. ValuesInv'
  BY <1>1, <1>4, ListFrame DEF Inv, ValuesInv
<1> QED
  BY <1>2, <1>3, <1>4, <1>5 DEF Inv

LEMMA NextKeepsInv == Inv /\ [Next]_vars => Inv'
<1> SUFFICES ASSUME Inv, [Next]_vars PROVE Inv'
  OBVIOUS
<1>1. CASE UNCHANGED vars
  <2>1. status' \in Statuses
    BY <1>1 DEF vars, programVars, Inv, TypeOK, ProgramTypeOK
  <2> QED
    BY <1>1, <2>1, HaltKeepsInv
    DEF vars, queueVars, listVars, programVars, locals, condVars
<1> QED
  BY <1>1, WriterKeepsInv, ReaderKeepsInv, MonitorKeepsInv, MainKeepsInv,
     SpuriousKeepsInv DEF Next

(* The strengthening of the properties below is an invariant. *)
THEOREM Invariance == Spec => []Inv
BY Initially, NextKeepsInv, PTL DEF Spec

-----------------------------------------------------------------------------

(* Every variable keeps its type: no counter leaves its width, no pointer  *)
(* points outside the heap's blocks, every thread is where its routine is. *)
THEOREM TypeCorrect == Spec => []TypeOK
<1>1. Inv => TypeOK
  BY DEF Inv
<1> QED
  BY <1>1, Invariance, PTL

(* Unless malloc's memory happens to hold PROHIBIT_SHARE, the flag says    *)
(* whose turn it is: count is 1 when it is the reader's turn and 0 when it *)
(* is the writer's, for every capacity.                                    *)
THEOREM TurnsAlternate ==
  PROHIBIT_SHARE \notin FlagAtStart => (Spec => []TurnMatchesList)
<1> SUFFICES ASSUME PROHIBIT_SHARE \notin FlagAtStart
             PROVE  Spec => []TurnMatchesList
  OBVIOUS
<1>1. Inv => TurnMatchesList
  BY DEF Inv, TurnInv, TurnMatchesList
<1> QED
  BY <1>1, Invariance, PTL

(* One condition variable loses no wakeup, whatever the flag holds at the  *)
(* start and however often pthread_cond_wait returns for no reason.        *)
THEOREM WakeupsKept == Spec => []NoLostWakeup
<1>1. Inv => NoLostWakeup
  BY DEF Inv
<1> QED
  BY <1>1, Invariance, PTL

-----------------------------------------------------------------------------
(* The queue implements the bounded queue: linking a node is a Put,        *)
(* unlinking one is a Take, and no other step is visible.                  *)

LEMMA InitRefines == Init => Fifo!Init
<1> SUFFICES ASSUME Init PROVE Fifo!Init
  OBVIOUS
<1>1. Len(chain) = 0
  BY EmptySeq DEF Init, QueueInit
<1>2. contents = <<>>
  BY <1>1 DEF contents
<1> QED
  BY <1>2 DEF Init, QueueInit, ProgramInit, Fifo!Init, accepted, delivered,
              Threads, Workers

LEMMA NextRefines == Inv /\ [Next]_vars => [Fifo!Next]_(Fifo!vars)
<1> SUFFICES ASSUME Inv, [Next]_vars PROVE [Fifo!Next]_(Fifo!vars)
  OBVIOUS
<1>0. ControlInv /\ TypeOK /\ LockInv
  BY ControlFacts DEF Inv
<1>1. ASSUME UNCHANGED listVars, UNCHANGED <<maxCount, accepted, delivered>>
      PROVE  UNCHANGED Fifo!vars
  BY <1>1, ContentsFrame DEF Fifo!vars
<1>2. CASE AddLink
  <2>1. PICK n \in Node \ heap : Link(n, i)
    BY <1>2 DEF AddLink
  <2>2. ListTypeOK /\ ListIntact /\ i \in CInt
    BY DEF Inv, TypeOK, QueueTypeOK, ProgramTypeOK
  <2>3. contents' = Append(contents, i)
    BY <2>1, <2>2, LinkContents
  <2>4. Len(contents) < maxCount
    <3>1. pc["writer"] = "link"
      BY <1>2 DEF AddLink, Step
    <3>2. pc["reader"] # "tally"
      BY <1>0, <3>1, MutualExclusion DEF InsidePoints, Workers
    <3>3. count = Len(chain) /\ count < maxCount
      BY <3>1, <3>2, ControlFacts DEF Inv, TestedInv, CountInv
    <3>4. Len(contents) = Len(chain)
      BY <2>2, ContentsType DEF contents, ListTypeOK
    <3> QED
      BY <3>3, <3>4
  <2>5. /\ accepted = i /\ accepted' = NextInt(i)
        /\ delivered' = delivered /\ maxCount' = maxCount
    BY <1>0, <1>2 DEF AddLink, Step, locals, accepted, delivered, ControlInv,
                      Threads, Workers
  <2> QED
    BY <2>3, <2>4, <2>5 DEF Fifo!Next, Fifo!Put, Fifo!After, NextInt
<1>3. CASE GetTake
  <2>1. chain # <<>> /\ ListTypeOK /\ ListIntact
    <3>1. pc["reader"] = "take"
      BY <1>3 DEF GetTake, Step
    <3>2. pc["writer"] # "tally"
      BY <1>0, <3>1, MutualExclusion DEF InsidePoints, Workers
    <3>3. Len(chain) = 1
      BY <3>1, <3>2, ControlFacts, <1>0 DEF Inv, TestedInv, CountInv
    <3>4. chain # <<>>
      BY <3>3, EmptySeq
    <3> QED
      BY <3>4 DEF Inv, TypeOK, QueueTypeOK
  <2>2. /\ contents # <<>>
        /\ Head(contents) = got'
        /\ contents' = Tail(contents)
    BY <1>3, <2>1, UnlinkContents DEF GetTake
  <2>3. /\ accepted' = accepted /\ maxCount' = maxCount
        /\ delivered' = NextInt(got')
    BY <1>0, <1>3 DEF GetTake, Step, accepted, delivered, ControlInv, Threads, Workers
  <2> QED
    BY <2>2, <2>3 DEF Fifo!Next, Fifo!Take, Fifo!After, NextInt
<1>4. CASE Writer /\ ~ AddLink
  <2>1. UNCHANGED listVars
    BY <1>4 DEF Writer, AddLock, AddWait, AddRewake, Rewake, Wait, AddTest, AddEnter,
                AddNoMemory, AddTally, Signal, AddUnlock, queueVars, listVars
  <2>2. UNCHANGED <<maxCount, expected, got>>
    BY <1>4 DEF Writer, AddLock, AddWait, AddRewake, Rewake, Wait, AddTest, AddEnter,
                AddNoMemory, AddTally, Signal, AddUnlock, queueVars, locals
  <2>3. \/ /\ pc["writer"] \in {"tally", "signal"} /\ i' = i
           /\ \E to \in {"signal", "unlock"} : pc' = [pc EXCEPT !["writer"] = to]
        \/ /\ pc["writer"] = "unlock" /\ i' = NextInt(i)
           /\ pc' = [pc EXCEPT !["writer"] = "lock"]
        \/ /\ pc["writer"] \in {"lock", "test", "wait", "enter", "link"} /\ i' = i
           /\ \E to \in {"test", "wait", "enter", "link"} :
                pc' = [pc EXCEPT !["writer"] = to]
    <3>1. CASE AddNoMemory
      <4>1. pc' = [pc EXCEPT !["writer"] = "link"] /\ pc["writer"] = "link" /\ i' = i
        BY <1>0, <3>1 DEF AddNoMemory, Die, locals, ControlInv, Threads, Workers
      <4> QED
        BY <4>1
    <3>2. CASE AddEnter
      <4>1. \E to \in {"link", "enter"} : pc' = [pc EXCEPT !["writer"] = to]
        BY <1>0, <3>2 DEF AddEnter, Step, Die, ControlInv, Threads, Workers
      <4>2. pc["writer"] = "enter" /\ i' = i
        BY <3>2 DEF AddEnter, Step, Die, locals
      <4> QED
        BY <4>1, <4>2
    <3>3. CASE AddLock
      BY <3>3 DEF AddLock, Lock, Step, locals
    <3>4. CASE AddWait
      BY <3>4 DEF AddWait, Wait, Step, locals
    <3>5. CASE AddRewake
      BY <3>5 DEF AddRewake, Rewake, Lock, Step, locals
    <3>6. CASE AddTest
      BY <3>6 DEF AddTest, Step, locals
    <3>7. CASE AddTally
      BY <3>7 DEF AddTally, Step, locals
    <3>8. CASE Signal("writer")
      BY <3>8 DEF Signal, Step, locals
    <3>9. CASE AddUnlock
      BY <3>9 DEF AddUnlock, Unlock, Step, WriterAdvances
    <3> QED
      BY <1>4, <3>1, <3>2, <3>3, <3>4, <3>5, <3>6, <3>7, <3>8, <3>9 DEF Writer
  <2>5. UNCHANGED <<accepted, delivered>>
    BY <1>0, <2>2, <2>3 DEF accepted, delivered, ControlInv, Threads, Workers
  <2> QED
    BY <1>1, <2>1, <2>2, <2>5
<1>5. CASE Reader /\ ~ GetTake
  <2>1. UNCHANGED listVars
    BY <1>5, GetEnterPasses DEF Reader, GetLock, GetEnter, GetWait, GetRewake, Rewake, Wait, GetTest,
                GetTally, Signal, GetUnlock, GetCheck, queueVars, listVars
  <2>2. UNCHANGED <<maxCount, i, got>>
    BY <1>5 DEF Reader, GetLock, GetEnter, GetWait, GetRewake, Rewake, Wait, GetTest,
                GetTally, Signal, GetUnlock, GetCheck, queueVars, locals
  <2>3. \/ /\ pc["reader"] \in {"tally", "signal", "unlock"} /\ expected' = expected
           /\ \E to \in {"signal", "unlock", "check"} :
                pc' = [pc EXCEPT !["reader"] = to]
        \/ /\ pc["reader"] = "check" /\ expected' = NextInt(got)
           /\ pc' = [pc EXCEPT !["reader"] = "lock"]
        \/ /\ pc["reader"] \in {"lock", "enter", "test", "wait"}
           /\ expected' = expected
           /\ \E to \in {"enter", "test", "wait", "take"} :
                pc' = [pc EXCEPT !["reader"] = to]
    <3>1. CASE GetLock
      BY <3>1 DEF GetLock, Lock, Step, locals
    <3>2. CASE GetEnter
      BY <3>2, GetEnterPasses DEF Step, locals
    <3>3. CASE GetWait
      BY <3>3 DEF GetWait, Wait, Step, locals
    <3>4. CASE GetRewake
      BY <3>4 DEF GetRewake, Rewake, Lock, Step, locals
    <3>5. CASE GetTest
      BY <3>5 DEF GetTest, Step, locals
    <3>6. CASE GetTally
      BY <3>6 DEF GetTally, Step, locals
    <3>7. CASE Signal("reader")
      BY <3>7 DEF Signal, Step, locals
    <3>8. CASE GetUnlock
      BY <3>8 DEF GetUnlock, Unlock, Step, locals
    <3>9. CASE GetCheck
      BY <3>9 DEF GetCheck, Step, ReaderChecks
    <3> QED
      BY <1>5, <3>1, <3>2, <3>3, <3>4, <3>5, <3>6, <3>7, <3>8, <3>9 DEF Reader
  <2>5. UNCHANGED <<accepted, delivered>>
    BY <1>0, <2>2, <2>3 DEF accepted, delivered, ControlInv, Threads, Workers
  <2> QED
    BY <1>1, <2>1, <2>2, <2>5
<1>6. CASE Monitor
  <2>1. UNCHANGED listVars /\ UNCHANGED <<maxCount, i, expected, got>>
    BY <1>6 DEF Monitor, StatsLock, StatsRead, StatsUnlock, StatsPrint,
                queueVars, listVars, locals
  <2>2. \E to : pc' = [pc EXCEPT !["monitor"] = to]
    BY <1>6 DEF Monitor, StatsLock, StatsRead, StatsUnlock, StatsPrint, Lock, Unlock,
                Step
  <2>3. UNCHANGED <<accepted, delivered>>
    BY <1>0, <2>1, <2>2 DEF accepted, delivered, ControlInv, Threads, Workers
  <2> QED
    BY <1>1, <2>1, <2>3
<1>7. CASE Main
  <2>1. UNCHANGED listVars /\ UNCHANGED <<maxCount, i, expected, got>>
    BY <1>7 DEF Main, queueVars, locals, listVars
  <2>2. PICK t \in Workers :
          CreateFails(t) \/ \E nxt \in Successor(t) : Create(t, nxt, "lock")
    BY <1>7 DEF Main, MainStep, Successor, Workers
  <2>3. UNCHANGED <<accepted, delivered>>
    BY <1>0, <2>1, <2>2
    DEF CreateFails, Die, Create, BirthInv, accepted, delivered, Inv, ControlInv,
        Threads, Workers
  <2> QED
    BY <1>1, <2>1, <2>3
<1>8. CASE SpuriousWakeup \/ UNCHANGED vars
  <2>1. /\ UNCHANGED listVars
        /\ UNCHANGED <<maxCount, accepted, delivered>>
    BY <1>8 DEF SpuriousWakeup, vars, queueVars, programVars, listVars, accepted,
                delivered
  <2> QED
    BY <1>1, <2>1
<1> QED
  BY <1>2, <1>3, <1>4, <1>5, <1>6, <1>7, <1>8 DEF Next, Writer, Reader

(* The queue of the condition-variable variant is the bounded queue: what  *)
(* queueAdd accepts comes out of queueGet, in order, and never more than   *)
(* maxCount of it is inside, also when the flag starts with garbage.       *)
THEOREM Refinement == Spec => ImplementsFifo
BY InitRefines, NextRefines, Invariance, PTL DEF Spec, Fifo!Spec, ImplementsFifo

-----------------------------------------------------------------------------
(* The statistics.  An attempt is ahead of its success exactly while the   *)
(* operation is between the two, and the additions are ahead of the        *)
(* removals by what is in the list; the monitor's copies agree with the    *)
(* fields as long as it has the mutex.                                     *)

AttemptsInv ==
  /\ stats["addAttempts"] = IF pc["writer"] \in {"link", "tally"}
                            THEN NextLong(stats["addCount"]) ELSE stats["addCount"]
  /\ stats["getAttempts"] = IF pc["reader"] \in {"test", "wait", "take", "tally"}
                            THEN NextLong(stats["getCount"]) ELSE stats["getCount"]
  /\ stats["addCount"] = IF count = 1
                         THEN NextLong(stats["getCount"]) ELSE stats["getCount"]

(* A failed assertion ends the process after the attempt was counted. *)
StatsInv == status = "running" => AttemptsInv

(* What queuePrintStats would copy now.                                    *)
FieldNow(f) == IF f = "count" THEN count ELSE stats[f]

(* The monitor has the mutex while it copies, so its copies are current.   *)
CopyInv ==
  /\ \A k \in 1 .. 5 : pc["monitor"] = Fields[k] =>
       \A j \in 1 .. k - 1 : snap[Fields[j]] = FieldNow(Fields[j])
  /\ pc["monitor"] = "unlock" => \A k \in 1 .. 5 : snap[Fields[k]] = FieldNow(Fields[k])

CountersInv == Inv /\ StatsInv /\ CopyInv /\ PrintedStatsConsistent

LEMMA CountersInitially == Init => StatsInv /\ CopyInv /\ PrintedStatsConsistent
<1> SUFFICES ASSUME Init PROVE StatsInv /\ CopyInv /\ PrintedStatsConsistent
  OBVIOUS
<1>1. /\ \A c \in Counters : stats[c] = 0
      /\ count = 0 /\ \A t \in Threads : pc[t] \in {"monitor", "unborn"}
  BY DEF Init, QueueInit, ProgramInit
<1>2. StatsInv
  BY <1>1 DEF StatsInv, AttemptsInv, Counters, Threads, Workers
<1>3. CopyInv /\ PrintedStatsConsistent
  BY <1>1 DEF CopyInv, PrintedStatsConsistent, Fields, Threads, Workers
<1> QED
  BY <1>2, <1>3

(* A step that counts nothing, and moves nobody over the counting. *)
LEMMA StatsFrame ==
  ASSUME StatsInv, UNCHANGED <<stats, count>>,
         status' = "running" => status = "running",
         pc["writer"] \in {"link", "tally"} <=> pc'["writer"] \in {"link", "tally"},
         pc["reader"] \in {"test", "wait", "take", "tally"}
           <=> pc'["reader"] \in {"test", "wait", "take", "tally"}
  PROVE  StatsInv'
BY DEF StatsInv, AttemptsInv

(* A step of another thread: the monitor's copies stay what they are, and  *)
(* the fields too if the monitor is inside.                                *)
LEMMA CopyFrame ==
  ASSUME CopyInv, PrintedStatsConsistent, UNCHANGED snap,
         pc'["monitor"] = pc["monitor"],
         pc["monitor"] \in InsidePoints => UNCHANGED <<stats, count>>
  PROVE  CopyInv' /\ PrintedStatsConsistent'
<1>1. PrintedStatsConsistent'
  BY DEF PrintedStatsConsistent
<1>2. CASE UNCHANGED <<stats, count>>
  BY <1>1, <1>2 DEF CopyInv, FieldNow
<1>3. CASE pc["monitor"] \notin InsidePoints
  BY <1>1, <1>3 DEF CopyInv, InsidePoints, Fields, FieldNames, Counters
<1> QED
  BY <1>2, <1>3

LEMMA WriterKeepsCounters ==
  CountersInv /\ Writer => StatsInv' /\ CopyInv' /\ PrintedStatsConsistent'
<1> SUFFICES ASSUME CountersInv, Writer
             PROVE  StatsInv' /\ CopyInv' /\ PrintedStatsConsistent'
  OBVIOUS
<1>0. /\ ControlInv /\ LockInv /\ Inv /\ StatsInv /\ CopyInv /\ PrintedStatsConsistent
      /\ stats \in [Counters -> CLong]
  BY ControlFacts DEF CountersInv, Inv, TypeOK, QueueTypeOK
<1>1. CASE AddEnter
  <2>1. /\ pc["writer"] = "enter" /\ stats' = Bump("addAttempts")
        /\ status = "running" /\ UNCHANGED <<count, snap>>
        /\ \/ pc' = [pc EXCEPT !["writer"] = "link"]
           \/ pc' = pc /\ status' = "assertion_failed"
    BY <1>1 DEF AddEnter, Step, Die, locals
  <2>2. /\ pc'["monitor"] = pc["monitor"] /\ pc'["reader"] = pc["reader"]
        /\ status' = "running" => pc'["writer"] = "link"
    BY <1>0, <2>1 DEF ControlInv, Threads, Workers
  <2>3. pc["monitor"] \notin InsidePoints
    BY <1>0, <2>1, MutualExclusion DEF InsidePoints, Workers
  <2>4. StatsInv'
    BY <1>0, <2>1, <2>2 DEF StatsInv, AttemptsInv, Bump, Counters
  <2> QED
    BY <1>0, <2>1, <2>2, <2>3, <2>4, CopyFrame
<1>2. CASE AddTally
  <2>1. /\ pc["writer"] = "tally" /\ stats' = Bump("addCount")
        /\ status = "running" /\ count = 0 /\ count' = 1 /\ snap' = snap
        /\ pc' = [pc EXCEPT !["writer"] = "signal"]
    BY <1>0, <1>2 DEF AddTally, TallyAdd, Step, locals, Inv, TestedInv
  <2>2. /\ pc'["monitor"] = pc["monitor"] /\ pc'["reader"] = pc["reader"]
        /\ pc'["writer"] = "signal"
    BY <1>0, <2>1 DEF ControlInv, Threads, Workers
  <2>3. pc["monitor"] \notin InsidePoints
    BY <1>0, <2>1, MutualExclusion DEF InsidePoints, Workers
  <2>4. StatsInv'
    BY <1>0, <2>1, <2>2 DEF StatsInv, AttemptsInv, Bump, Counters
  <2> QED
    BY <1>0, <2>1, <2>2, <2>3, <2>4, CopyFrame
<1>3. CASE ~ AddEnter /\ ~ AddTally
  <2>1. UNCHANGED <<stats, count, snap>> /\ status = "running"
    BY <1>3 DEF Writer, AddLock, AddWait, AddRewake, Rewake, Wait, Lock, Unlock, Step,
                Die, AddTest, AddLink, AddNoMemory, Signal, AddUnlock, queueVars, locals
  <2>2. \/ /\ pc["writer"] \in {"lock", "test", "wait", "signal", "unlock"}
           /\ \E to \in {"test", "wait", "enter", "unlock", "lock"} :
                pc' = [pc EXCEPT !["writer"] = to]
        \/ pc["writer"] = "link" /\ pc' = [pc EXCEPT !["writer"] = "tally"]
        \/ pc' = pc
    <3>1. CASE AddLock
      BY <3>1 DEF AddLock, Lock, Step
    <3>2. CASE AddWait
      BY <3>2 DEF AddWait, Wait, Step
    <3>3. CASE AddRewake
      BY <3>3 DEF AddRewake, Rewake, Lock, Step
    <3>4. CASE AddTest
      BY <3>4 DEF AddTest, Step
    <3>5. CASE AddLink
      BY <3>5 DEF AddLink, Step
    <3>6. CASE AddNoMemory
      BY <3>6 DEF AddNoMemory, Die
    <3>7. CASE Signal("writer")
      BY <3>7 DEF Signal, Step
    <3>8. CASE AddUnlock
      BY <3>8 DEF AddUnlock, Unlock, Step
    <3> QED
      BY <1>3, <3>1, <3>2, <3>3, <3>4, <3>5, <3>6, <3>7, <3>8 DEF Writer
  <2>3. /\ pc'["monitor"] = pc["monitor"] /\ pc'["reader"] = pc["reader"]
        /\ pc["writer"] \in {"link", "tally"} <=> pc'["writer"] \in {"link", "tally"}
    BY <1>0, <2>2 DEF ControlInv, Threads, Workers
  <2> QED
    BY <1>0, <2>1, <2>3, StatsFrame, CopyFrame
<1> QED
  BY <1>1, <1>2, <1>3

LEMMA ReaderKeepsCounters ==
  CountersInv /\ Reader => StatsInv' /\ CopyInv' /\ PrintedStatsConsistent'
<1> SUFFICES ASSUME CountersInv, Reader
             PROVE  StatsInv' /\ CopyInv' /\ PrintedStatsConsistent'
  OBVIOUS
<1>0. /\ ControlInv /\ LockInv /\ Inv /\ StatsInv /\ CopyInv /\ PrintedStatsConsistent
      /\ stats \in [Counters -> CLong]
  BY ControlFacts DEF CountersInv, Inv, TypeOK, QueueTypeOK
<1>1. CASE GetEnter
  <2>1. /\ pc["reader"] = "enter" /\ stats' = Bump("getAttempts")
        /\ status = "running" /\ UNCHANGED <<count, snap>>
        /\ pc' = [pc EXCEPT !["reader"] = "test"]
    BY <1>0, <1>1, GetEnterPasses DEF Step, locals
  <2>2. /\ pc'["monitor"] = pc["monitor"] /\ pc'["writer"] = pc["writer"]
        /\ pc'["reader"] = "test"
    BY <1>0, <2>1 DEF ControlInv, Threads, Workers
  <2>3. pc["monitor"] \notin InsidePoints
    BY <1>0, <2>1, MutualExclusion DEF InsidePoints, Workers
  <2>4. StatsInv'
    BY <1>0, <2>1, <2>2 DEF StatsInv, AttemptsInv, Bump, Counters
  <2> QED
    BY <1>0, <2>1, <2>2, <2>3, <2>4, CopyFrame
<1>2. CASE GetTally
  <2>1. /\ pc["reader"] = "tally" /\ stats' = Bump("getCount")
        /\ status = "running" /\ count = 1 /\ count' = 0 /\ snap' = snap
        /\ pc' = [pc EXCEPT !["reader"] = "signal"]
    BY <1>0, <1>2 DEF GetTally, TallyGet, Step, locals, Inv, TestedInv
  <2>2. /\ pc'["monitor"] = pc["monitor"] /\ pc'["writer"] = pc["writer"]
        /\ pc'["reader"] = "signal"
    BY <1>0, <2>1 DEF ControlInv, Threads, Workers
  <2>3. pc["monitor"] \notin InsidePoints
    BY <1>0, <2>1, MutualExclusion DEF InsidePoints, Workers
  <2>4. StatsInv'
    BY <1>0, <2>1, <2>2 DEF StatsInv, AttemptsInv, Bump, Counters
  <2> QED
    BY <1>0, <2>1, <2>2, <2>3, <2>4, CopyFrame
<1>3. CASE ~ GetEnter /\ ~ GetTally
  <2>1. UNCHANGED <<stats, count, snap>> /\ status = "running"
    BY <1>3 DEF Reader, GetLock, GetWait, GetRewake, Rewake, Wait, Lock, Unlock, Step,
                GetTest, GetTake, Signal, GetUnlock, GetCheck, queueVars, locals
  <2>2. \/ /\ pc["reader"] \in {"test", "wait", "take"}
           /\ \E to \in {"test", "wait", "take", "tally"} :
                pc' = [pc EXCEPT !["reader"] = to]
        \/ /\ pc["reader"] \in {"lock", "signal", "unlock", "check"}
           /\ \E to \in {"enter", "unlock", "check", "lock"} :
                pc' = [pc EXCEPT !["reader"] = to]
    <3>1. CASE GetLock
      BY <3>1 DEF GetLock, Lock, Step
    <3>2. CASE GetWait
      BY <3>2 DEF GetWait, Wait, Step
    <3>3. CASE GetRewake
      BY <3>3 DEF GetRewake, Rewake, Lock, Step
    <3>4. CASE GetTest
      BY <3>4 DEF GetTest, Step
    <3>5. CASE GetTake
      BY <3>5 DEF GetTake, Step
    <3>6. CASE Signal("reader")
      BY <3>6 DEF Signal, Step
    <3>7. CASE GetUnlock
      BY <3>7 DEF GetUnlock, Unlock, Step
    <3>8. CASE GetCheck
      BY <3>8 DEF GetCheck, Step
    <3> QED
      BY <1>3, <3>1, <3>2, <3>3, <3>4, <3>5, <3>6, <3>7, <3>8 DEF Reader
  <2>3. /\ pc'["monitor"] = pc["monitor"] /\ pc'["writer"] = pc["writer"]
        /\ pc["reader"] \in {"test", "wait", "take", "tally"}
             <=> pc'["reader"] \in {"test", "wait", "take", "tally"}
    BY <1>0, <2>2 DEF ControlInv, Threads, Workers
  <2> QED
    BY <1>0, <2>1, <2>3, StatsFrame, CopyFrame
<1> QED
  BY <1>1, <1>2, <1>3

(* The copies are complete, and taken at one time. *)
LEMMA CopiesAgree ==
  ASSUME Inv, AttemptsInv, pc["monitor"] = "unlock",
         \A k \in 1 .. 5 : snap[Fields[k]] = FieldNow(Fields[k])
  PROVE  /\ snap["addAttempts"] = snap["addCount"]
         /\ \E n \in {0, 1} : Ahead(snap["getAttempts"], snap["getCount"], n)
         /\ Ahead(snap["addCount"], snap["getCount"], snap["count"])
<1>1. /\ snap["count"] = count
      /\ \A c \in Counters : snap[c] = stats[c] /\ stats[c] \in CLong
  <2>1. /\ snap[Fields[1]] = FieldNow(Fields[1]) /\ snap[Fields[2]] = FieldNow(Fields[2])
        /\ snap[Fields[3]] = FieldNow(Fields[3]) /\ snap[Fields[4]] = FieldNow(Fields[4])
        /\ snap[Fields[5]] = FieldNow(Fields[5])
    OBVIOUS
  <2> QED
    BY <2>1 DEF FieldNow, Fields, Counters, Inv, TypeOK, QueueTypeOK
<1>2. pc["writer"] \notin {"link", "tally"}
  BY MutualExclusion DEF Inv, InsidePoints, Workers
<1>3. \A a, b \in CLong : b = NextLong(a) => Ahead(b, a, 1)
  BY QueueTAssumption DEF CLong, NextLong, Ahead
<1>4. \A a \in CLong : Ahead(a, a, 0)
  BY QueueTAssumption DEF CLong, Ahead
<1>5. count \in {0, 1}
  BY DEF Inv, TurnInv
<1>6. snap["addAttempts"] = snap["addCount"]
  BY <1>1, <1>2 DEF AttemptsInv, Counters
<1>7. \E n \in {0, 1} : Ahead(snap["getAttempts"], snap["getCount"], n)
  BY <1>1, <1>3, <1>4 DEF AttemptsInv, Counters
<1>8. Ahead(snap["addCount"], snap["getCount"], snap["count"])
  <2>1. CASE count = 0
    BY <1>1, <1>4, <2>1 DEF AttemptsInv, Counters
  <2>2. CASE count = 1
    BY <1>1, <1>3, <2>2 DEF AttemptsInv, Counters
  <2> QED
    BY <1>5, <2>1, <2>2
<1> QED
  BY <1>6, <1>7, <1>8

LEMMA MonitorKeepsCounters ==
  CountersInv /\ Monitor => StatsInv' /\ CopyInv' /\ PrintedStatsConsistent'
<1> SUFFICES ASSUME CountersInv, Monitor
             PROVE  StatsInv' /\ CopyInv' /\ PrintedStatsConsistent'
  OBVIOUS
<1>0. /\ ControlInv /\ LockInv /\ Inv /\ StatsInv /\ CopyInv
      /\ snap \in [FieldNames -> Int]
  BY ControlFacts DEF CountersInv, Inv, TypeOK, ProgramTypeOK
<1>1. UNCHANGED <<stats, count>> /\ status = "running"
  BY DEF Monitor, StatsLock, StatsRead, StatsUnlock, StatsPrint, Lock, Unlock, Step,
         queueVars
<1>2. \E to : pc' = [pc EXCEPT !["monitor"] = to]
  BY DEF Monitor, StatsLock, StatsRead, StatsUnlock, StatsPrint, Lock, Unlock, Step
<1>3. pc'["writer"] = pc["writer"] /\ pc'["reader"] = pc["reader"]
  BY <1>0, <1>2 DEF ControlInv, Threads, Workers
<1>4. StatsInv'
  BY <1>0, <1>1, <1>3, StatsFrame
<1>5. \A f : FieldNow(f)' = FieldNow(f)
  BY <1>1 DEF FieldNow
<1>6. CASE StatsLock
  <2>1. pc'["monitor"] = "count"
    BY <1>0, <1>6 DEF StatsLock, Lock, Step, Fields, ControlInv, Threads, Workers
  <2> QED
    BY <1>4, <2>1 DEF CopyInv, PrintedStatsConsistent, Fields
<1>7. CASE StatsRead
  <2>1. PICK k \in 1 .. 5 :
          /\ Step("monitor", Fields[k], IF k = 5 THEN "unlock" ELSE Fields[k + 1])
          /\ ReadField(k)
    BY <1>7 DEF StatsRead
  <2>2. \A j, m \in 1 .. 5 : Fields[j] = Fields[m] => j = m
    BY DEF Fields
  <2>3. \A j \in 1 .. 5 : Fields[j] \in FieldNames /\ Fields[j] \notin {"unlock", "print"}
    BY DEF Fields, FieldNames, Counters
  <2>4. /\ pc["monitor"] = Fields[k]
        /\ pc'["monitor"] = IF k = 5 THEN "unlock" ELSE Fields[k + 1]
    BY <1>0, <2>1 DEF Step, ControlInv, Threads, Workers
  <2>5. \A j \in 1 .. k - 1 : snap[Fields[j]] = FieldNow(Fields[j])
    BY <1>0, <2>4 DEF CopyInv
  <2>6. snap' = [snap EXCEPT ![Fields[k]] = FieldNow(Fields[k])]
    BY <2>1 DEF ReadField, FieldNow
  <2>7. \A j \in 1 .. k : snap'[Fields[j]] = FieldNow(Fields[j])
    BY <1>0, <2>2, <2>3, <2>5, <2>6
  <2>8. CASE k = 5
    <3>1. pc'["monitor"] = "unlock"
      BY <2>4, <2>8
    <3>2. CopyInv'
      BY <1>5, <2>3, <2>7, <2>8, <3>1 DEF CopyInv
    <3> QED
      BY <1>4, <3>1, <3>2 DEF PrintedStatsConsistent
  <2>9. CASE k # 5
    <3>1. pc'["monitor"] = Fields[k + 1] /\ k + 1 \in 1 .. 5
      BY <2>4, <2>9
    <3>2. CopyInv'
      BY <1>5, <2>2, <2>3, <2>7, <3>1 DEF CopyInv
    <3> QED
      BY <1>4, <2>3, <3>1, <3>2 DEF PrintedStatsConsistent
  <2> QED
    BY <2>8, <2>9
<1>8. CASE StatsUnlock
  <2>1. pc["monitor"] = "unlock" /\ pc'["monitor"] = "print" /\ snap' = snap
    BY <1>0, <1>8 DEF StatsUnlock, Unlock, Step, locals, ControlInv, Threads, Workers
  <2>2. AttemptsInv /\ \A k \in 1 .. 5 : snap[Fields[k]] = FieldNow(Fields[k])
    BY <1>0, <1>1, <2>1 DEF StatsInv, CopyInv
  <2>3. PrintedStatsConsistent'
    BY <1>0, <2>1, <2>2, CopiesAgree DEF PrintedStatsConsistent, Ahead
  <2>4. CopyInv'
    BY <2>1 DEF CopyInv, Fields
  <2> QED
    BY <1>4, <2>3, <2>4
<1>9. CASE StatsPrint
  <2>1. pc'["monitor"] = "lock"
    BY <1>0, <1>9 DEF StatsPrint, Step, ControlInv, Threads, Workers
  <2> QED
    BY <1>4, <2>1 DEF CopyInv, PrintedStatsConsistent, Fields
<1> QED
  BY <1>6, <1>7, <1>8, <1>9 DEF Monitor

LEMMA NextKeepsCounters == CountersInv /\ [Next]_vars => CountersInv'
<1> SUFFICES ASSUME CountersInv, [Next]_vars PROVE CountersInv'
  OBVIOUS
<1>0. /\ ControlInv /\ Inv /\ StatsInv /\ CopyInv /\ PrintedStatsConsistent /\ BirthInv
      /\ Inv'
  BY ControlFacts, NextKeepsInv DEF CountersInv, Inv
<1>1. CASE Main
  <2>1. UNCHANGED <<stats, count, snap>> /\ status = "running"
    BY <1>1 DEF Main, MainStep, Create, CreateFails, Die, queueVars, locals
  <2>2. PICK t \in Workers :
          CreateFails(t) \/ \E nxt \in Successor(t) : Create(t, nxt, "lock")
    BY <1>1 DEF Main, MainStep, Successor, Workers
  <2>3. CASE CreateFails(t)
    BY <1>0, <2>1, <2>3, StatsFrame, CopyFrame DEF CreateFails, Die, CountersInv
  <2>4. ASSUME NEW nxt \in Successor(t), Create(t, nxt, "lock")
        PROVE  CountersInv'
    <3>1. pc[t] = "unborn" /\ pc' = [pc EXCEPT !["main"] = nxt, ![t] = "lock"]
      BY <1>0, <2>2, <2>4 DEF Create, BirthInv, Workers
    <3>2. \A u \in Workers : \/ pc'[u] = pc[u]
                             \/ pc[u] = "unborn" /\ pc'[u] = "lock"
      <4>1. pc'[t] = "lock" /\ \A u \in Workers \ {t} : pc'[u] = pc[u]
        BY <1>0, <2>2, <3>1 DEF ControlInv, Threads, Workers
      <4> QED
        BY <2>2, <3>1, <4>1 DEF Workers
    <3>3. StatsInv'
      BY <1>0, <2>1, <3>2, StatsFrame DEF Workers
    <3>4. CopyInv' /\ PrintedStatsConsistent'
      <4>1. CASE pc'["monitor"] = pc["monitor"]
        BY <1>0, <2>1, <4>1, CopyFrame
      <4>2. CASE pc'["monitor"] = "lock"
        BY <4>2 DEF CopyInv, PrintedStatsConsistent, Fields
      <4> QED
        BY <3>2, <4>1, <4>2 DEF Workers
    <3> QED
      BY <1>0, <3>3, <3>4 DEF CountersInv
  <2> QED
    BY <2>2, <2>3, <2>4
<1>2. CASE SpuriousWakeup \/ UNCHANGED vars
  <2>1. UNCHANGED <<stats, count, snap, pc, status>>
    BY <1>2 DEF SpuriousWakeup, vars, queueVars, programVars
  <2> QED
    BY <1>0, <2>1, StatsFrame, CopyFrame DEF CountersInv
<1> QED
  BY <1>0, <1>1, <1>2, WriterKeepsCounters, ReaderKeepsCounters, MonitorKeepsCounters
  DEF Next, CountersInv

(* What queuePrintStats prints was true of the queue at one moment, for    *)
(* every width of the counters, also where they wrap.                      *)
THEOREM PrintedLinesAgree == Spec => []PrintedStatsConsistent
<1>1. Init => CountersInv
  BY Initially, CountersInitially DEF CountersInv
<1>2. CountersInv => PrintedStatsConsistent
  BY DEF CountersInv
<1> QED
  BY <1>1, <1>2, NextKeepsCounters, PTL DEF Spec
-----------------------------------------------------------------------------

(* If an assertion fails, it is that of queueAdd, for a capacity below 0.  *)
AssertOnlyForNegativeCapacity ==
  status = "assertion_failed" => maxCount < 0 /\ pc["writer"] = "enter"

(* queueGet's assertion (queue-condvar-impl.c:167) never fails, and        *)
(* queueAdd's only for a capacity below 0: what wakes the threads and in   *)
(* which order makes no difference to that.                                *)
THEOREM AssertionsHold == Spec => []AssertOnlyForNegativeCapacity
<1>1. Init => AssertOnlyForNegativeCapacity
  BY DEF Init, ProgramInit, AssertOnlyForNegativeCapacity
<1>2. Inv /\ AssertOnlyForNegativeCapacity /\ [Next]_vars
        => AssertOnlyForNegativeCapacity'
  <2> SUFFICES ASSUME Inv, [Next]_vars, AssertOnlyForNegativeCapacity,
                      status' = "assertion_failed"
               PROVE  maxCount' < 0 /\ pc'["writer"] = "enter"
    BY DEF AssertOnlyForNegativeCapacity
  <2>1. CASE AddEnter
    <3>1. /\ pc["writer"] = "enter" /\ count > maxCount
          /\ UNCHANGED <<pc, maxCount>>
      BY <2>1 DEF AddEnter, Step, Die
    <3> QED
      BY <3>1, ControlFacts DEF Inv, TestedInv
  <2>2. CASE UNCHANGED vars
    BY <2>2 DEF vars, queueVars, programVars, AssertOnlyForNegativeCapacity
  <2>3. CASE Writer /\ ~ AddEnter
    BY <2>3 DEF Writer, AddLock, AddWait, AddRewake, Rewake, Wait, Lock, Unlock, AddTest,
                AddLink, AddNoMemory, AddTally, Signal, AddUnlock, Step, Die
  <2>4. CASE Reader
    BY <2>4, GetEnterPasses
    DEF Reader, GetLock, GetWait, GetRewake, Rewake, Wait, Lock, Unlock, GetTest,
        GetTake, GetTally, Signal, GetUnlock, GetCheck, Step
  <2>5. CASE Monitor \/ Main \/ SpuriousWakeup
    BY <2>5 DEF Monitor, StatsLock, StatsRead, StatsUnlock, StatsPrint, Lock, Unlock,
                Step, Main, MainStep, Create, CreateFails, Die, SpuriousWakeup,
                programVars
  <2> QED
    BY <2>1, <2>2, <2>3, <2>4, <2>5 DEF Next
<1> QED
  BY <1>1, <1>2, Invariance, PTL DEF Spec
=============================================================================
