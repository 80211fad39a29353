-------------------------- MODULE MutexQueueProofs --------------------------
(***************************************************************************)
(* The safety of the mutex queue for every capacity, every supply of       *)
(* memory blocks and every width of the integers.                          *)
(***************************************************************************)
EXTENDS MutexQueue, QueueTProofs

(* Exactly the holder of the mutex is inside an operation. *)
LockInv == \A t \in Workers : pc[t] \in InsidePoints <=> mutex = t

(* count lags behind the list only while an operation is under way. *)
CountInv ==
  count = Len(chain) - (IF pc["writer"] = "tally" THEN 1 ELSE 0)
                     + (IF pc["reader"] = "tally" THEN 1 ELSE 0)

(* The list is well formed until queueDestroy frees its nodes. *)
ListInv == pc["writer"] # "abort" => ListIntact

(* What the tests of queueAdd and queueGet have established still holds    *)
(* when the list is touched.                                               *)
TestedInv ==
  /\ pc["writer"] = "link" => count < maxCount
  /\ pc["reader"] = "take" => count # 0

(* A thread main has not come to yet does not run. *)
BirthInv ==
  /\ pc["main"] = "monitor" => pc["monitor"] = "unborn"
  /\ pc["main"] \in {"monitor", "reader"} => pc["reader"] = "unborn"
  /\ pc["main"] \in {"monitor", "reader", "writer"} => pc["writer"] = "unborn"

(* A capacity from 0 on is never exceeded.                                 *)
CapacityInv == maxCount >= 0 => Len(chain) <= maxCount

(* A value on its way from queueGet to the check is the expected one. *)
ReaderInv == pc["reader"] \in {"tally", "unlock", "check"} => got = expected

(* The values in the list are the numbers accepted and not yet delivered.  *)
ValuesInv == ValuesBetween(delivered, accepted)

(* The strengthening of the properties below.                              *)
Inv == /\ TypeOK /\ LockInv /\ ListInv /\ CountInv /\ TestedInv
       /\ CapacityInv /\ ReaderInv /\ ValuesInv /\ BirthInv
       /\ AssertOnlyForNegativeCapacity

-----------------------------------------------------------------------------

LEMMA Initially == Init => Inv
<1> SUFFICES ASSUME Init PROVE Inv
  OBVIOUS
<1> USE DEF Init, QueueInit, ProgramInit
<1>1. TypeOK
  BY QueueTAssumption, EmptySeq
  DEF TypeOK, QueueTypeOK, ListTypeOK, ProgramTypeOK, ControlTypeOK, CInt, CLong,
      NoSnap, Statuses, WriterPoints, ReaderPoints, MonitorPoints, MainPoints,
      Threads, Workers
<1>2. Len(chain) = 0
  BY EmptySeq
<1>3. ListInv
  BY <1>2 DEF ListInv, ListIntact
<1>4. LockInv
  BY MutexQueueAssumption DEF LockInv, InsidePoints, Workers, Threads, FieldNames, Counters
<1>5. ValuesInv
  BY <1>2 DEF ValuesInv, ValuesBetween, delivered, accepted, Threads, Workers
<1>6. CountInv /\ TestedInv /\ CapacityInv /\ ReaderInv /\ BirthInv
  BY <1>2 DEF CountInv, TestedInv, CapacityInv, ReaderInv, BirthInv, Threads, Workers
<1> QED
  BY <1>1, <1>3, <1>4, <1>5, <1>6 DEF Inv, AssertOnlyForNegativeCapacity

-----------------------------------------------------------------------------
(* Locking, unlocking and stepping inside or outside the critical section  *)
(* keep the mutex with the thread that is inside.                          *)

LEMMA LockTaken ==
  ASSUME ControlTypeOK, LockInv, NEW t \in Workers, NEW to \in InsidePoints,
         Lock(t, to)
  PROVE  LockInv'
BY MutexQueueAssumption DEF ControlTypeOK, LockInv, Lock, Step, Threads

LEMMA LockReleased ==
  ASSUME ControlTypeOK, LockInv, NEW t \in Workers, NEW from \in InsidePoints,
         NEW to, to \notin InsidePoints, Unlock(t, from, to)
  PROVE  LockInv'
BY MutexQueueAssumption DEF ControlTypeOK, LockInv, Unlock, Step, Threads

LEMMA LockKept ==
  ASSUME ControlTypeOK, LockInv, NEW t \in Threads, NEW from, NEW to,
         Step(t, from, to), UNCHANGED mutex,
         from \in InsidePoints <=> to \in InsidePoints
  PROVE  LockInv'
BY DEF ControlTypeOK, LockInv, Step, Threads

(* Only one thread is inside: what the others' control points cannot be.   *)
LEMMA MutualExclusion ==
  ASSUME LockInv, NEW t \in Workers, pc[t] \in InsidePoints
  PROVE  \A u \in Workers \ {t} : pc[u] \notin InsidePoints
BY DEF LockInv

LEMMA Arithmetic ==
  ASSUME TypeOK
  PROVE  maxCount \in Int /\ count \in Int /\ Len(chain) \in Nat
BY QueueTAssumption, LenProperties DEF TypeOK, QueueTypeOK, ListTypeOK

LEMMA BirthKept ==
  ASSUME ControlTypeOK, BirthInv, NEW t \in Workers, NEW from, NEW to,
         from # "unborn", Step(t, from, to)
  PROVE  BirthInv'
BY DEF ControlTypeOK, BirthInv, Step, Threads, Workers

(* A thread that is inside and not tallying sees the length of the list.   *)
LEMMA CountExact ==
  ASSUME TypeOK, LockInv, CountInv,
         \/ pc["writer"] \in {"test", "link"}
         \/ pc["reader"] \in {"test", "take"}
  PROVE  count = Len(chain)
<1>1. ~ (pc["writer"] \in InsidePoints /\ pc["reader"] \in InsidePoints)
  BY MutualExclusion DEF Workers
<1>2. pc["writer"] # "tally" /\ pc["reader"] # "tally"
  BY <1>1 DEF InsidePoints
<1> QED
  BY <1>2, Arithmetic DEF CountInv

(* A reader that has the mutex never finds a count below zero.             *)
LEMMA NeverNegative ==
  ASSUME TypeOK, LockInv, CountInv, pc["reader"] = "test"
  PROVE  count >= 0
BY CountExact, Arithmetic

(* The end of the process, by anything but a failed assertion.             *)
LEMMA DyingKeepsInv ==
  ASSUME Inv, UNCHANGED <<queueVars, pc, locals, mutex>>,
         status' \in Statuses \ {"assertion_failed"}
  PROVE  Inv'
<1>1. UNCHANGED <<listVars, maxCount, count, stats, i, expected, got, snap>>
  BY DEF queueVars, listVars, locals
<1>2. TypeOK'
  BY <1>1 DEF Inv, TypeOK, QueueTypeOK, ListTypeOK, ProgramTypeOK, ControlTypeOK,
              listVars
<1>3. LockInv' /\ TestedInv' /\ ReaderInv' /\ BirthInv'
  BY <1>1 DEF Inv, LockInv, TestedInv, ReaderInv, BirthInv
<1>4. ListInv' /\ CapacityInv' /\ CountInv' /\ ValuesInv'
  BY <1>1, ListFrame
  DEF Inv, ListInv, CapacityInv, CountInv, ValuesInv, delivered, accepted
<1> QED
  BY <1>2, <1>3, <1>4 DEF Inv, AssertOnlyForNegativeCapacity

LEMMA LocksFreedQueueKeepsInv ==
  ASSUME Inv, NEW t, LocksFreedQueue(t)
  PROVE  Inv'
BY DyingKeepsInv DEF LocksFreedQueue, Die, Statuses

-----------------------------------------------------------------------------
(* One lemma per thread, one step per action. *)

LEMMA WriterKeepsInv == Inv /\ Writer => Inv'
<1> SUFFICES ASSUME Inv, Writer PROVE Inv'
  OBVIOUS
<1> USE DEF Inv, Lock, Unlock, Step, Die, locals, queueVars, Threads, Workers
<1>1. CASE AddLock
  <2> USE <1>1 DEF AddLock
  <2>1. UNCHANGED listVars
    BY DEF queueVars, listVars
  <2>2. TypeOK'
    BY DEF TypeOK, QueueTypeOK, ListTypeOK, ProgramTypeOK, ControlTypeOK, WriterPoints
  <2>3. LockInv'
    BY LockTaken DEF TypeOK, InsidePoints, FieldNames, Counters
  <2>4. ListInv' /\ CapacityInv'
    BY <2>1, ListFrame DEF ListInv, CapacityInv, TypeOK, ControlTypeOK
  <2>5. CountInv' /\ TestedInv' /\ AssertOnlyForNegativeCapacity'
    BY MutualExclusion, Arithmetic
    DEF CountInv, TestedInv, AssertOnlyForNegativeCapacity, CapacityInv,
        ControlTypeOK, TypeOK, InsidePoints
  <2>6. ReaderInv' /\ ValuesInv'
    BY <2>1, ListFrame
    DEF ReaderInv, ValuesInv, delivered, accepted, TypeOK, ControlTypeOK
  <2>7. BirthInv'
    BY BirthKept DEF TypeOK
  <2> QED
    BY <2>2, <2>3, <2>4, <2>5, <2>6, <2>7
<1>2. CASE AddTest
  <2> USE <1>2 DEF AddTest
  <2>1. UNCHANGED listVars
    OBVIOUS
  <2>2. TypeOK'
    <3>1. stats' \in [Counters -> CLong]
      BY BumpType DEF Counters, TypeOK, QueueTypeOK
    <3> QED
      BY <2>1, <3>1 DEF TypeOK, QueueTypeOK, ListTypeOK, ProgramTypeOK, ControlTypeOK, WriterPoints, Statuses, listVars
  <2>3. LockInv'
    <3>1. CASE Step("writer", "test", "link") \/ Step("writer", "test", "refuse")
      BY <3>1, LockKept DEF TypeOK, InsidePoints
    <3>2. CASE UNCHANGED pc
      BY <3>2 DEF LockInv
    <3> QED BY <3>1, <3>2
  <2>4. ListInv' /\ CapacityInv'
    BY <2>1, ListFrame DEF ListInv, CapacityInv, TypeOK, ControlTypeOK
  <2>5. CountInv' /\ TestedInv' /\ AssertOnlyForNegativeCapacity'
    <3>0. pc["writer"] = "test"
      OBVIOUS
    <3>1. count = Len(chain)
      <4> HIDE DEF AddTest
      <4> QED BY <3>0, CountExact
    <3>2. CountInv' /\ TestedInv'
      BY <2>1, <3>1, MutualExclusion, Arithmetic, ListFrame
      DEF CountInv, TestedInv, InsidePoints, TypeOK, ControlTypeOK
    <3>3. count > maxCount => maxCount < 0
      <4> HIDE DEF AddTest
      <4> QED BY <3>1, Arithmetic DEF CapacityInv
    <3> QED
      BY <3>2, <3>3 DEF AssertOnlyForNegativeCapacity
  <2>6. ReaderInv' /\ ValuesInv'
    BY <2>1, ListFrame
    DEF ReaderInv, ValuesInv, delivered, accepted, TypeOK, ControlTypeOK
  <2>7. BirthInv'
    BY BirthKept DEF BirthInv, TypeOK
  <2> QED
    BY <2>2, <2>3, <2>4, <2>5, <2>6, <2>7
<1>3. CASE AddLink
  <2> USE <1>3 DEF AddLink
  <2>0. ListIntact
    BY DEF ListInv
  <2>1. PICK n \in Node \ heap : Link(n, i)
    OBVIOUS
  <2>2. /\ ListTypeOK' /\ ListIntact' /\ chain' # <<>>
        /\ Len(chain') = Len(chain) + 1
    BY <2>0, <2>1, LinkAppends DEF TypeOK, QueueTypeOK, ProgramTypeOK
  <2>3. TypeOK'
    BY <2>2 DEF TypeOK, QueueTypeOK, ProgramTypeOK, ControlTypeOK, WriterPoints
  <2>4. LockInv'
    BY LockKept DEF TypeOK, InsidePoints
  <2>5. count = Len(chain) /\ pc["reader"] \notin InsidePoints
    BY MutualExclusion, Arithmetic DEF CountInv, InsidePoints
  <2>6. CapacityInv' /\ CountInv' /\ TestedInv' /\ AssertOnlyForNegativeCapacity'
    BY <2>2, <2>5, Arithmetic
    DEF CountInv, TestedInv, AssertOnlyForNegativeCapacity, CapacityInv,
        ControlTypeOK, TypeOK, InsidePoints
  <2>7. ReaderInv'
    BY DEF ReaderInv, TypeOK, ControlTypeOK
  <2>8. ValuesInv'
    <3>1. accepted = i /\ accepted' = NextInt(i) /\ delivered' = delivered
      BY DEF accepted, delivered, TypeOK, ControlTypeOK
    <3>2. delivered \in CInt /\ i \in CInt
      BY NextIntType DEF delivered, TypeOK, ProgramTypeOK
    <3>3. ValuesBetween(delivered, i)
      BY <3>1 DEF ValuesInv
    <3> QED
      BY <2>0, <2>1, <2>2, <3>1, <3>2, <3>3, LinkExtendsValues
      DEF ValuesInv, ValuesBetween, TypeOK, QueueTypeOK
  <2>9. BirthInv'
    BY BirthKept DEF TypeOK
  <2> QED
    BY <2>2, <2>3, <2>4, <2>6, <2>7, <2>8, <2>9 DEF ListInv
<1>4. CASE AddNoMemory
  <2> USE <1>4 DEF AddNoMemory
  <2>1. UNCHANGED <<first, last, next, val, chain, maxCount, count, stats, locals>>
    OBVIOUS
  <2>2. /\ pc["writer"] = "link" /\ pc'["writer"] = "abort"
        /\ pc'["reader"] = pc["reader"]
    BY DEF TypeOK, ControlTypeOK
  <2>3. TypeOK'
    BY <2>1 DEF TypeOK, QueueTypeOK, ListTypeOK, ProgramTypeOK, ControlTypeOK, WriterPoints
  <2>4. LockInv'
    BY LockKept DEF TypeOK, InsidePoints
  <2>5. TestedInv' /\ ReaderInv' /\ ListInv' /\ CapacityInv' /\ CountInv'
    BY <2>1, <2>2 DEF TestedInv, ReaderInv, ListInv, CapacityInv, CountInv
  <2>6. ValuesInv'
    BY <2>1, <2>2 DEF ValuesInv, ValuesBetween, delivered, accepted
  <2>7. BirthInv' /\ AssertOnlyForNegativeCapacity'
    BY BirthKept DEF TypeOK, AssertOnlyForNegativeCapacity
  <2> QED
    BY <2>3, <2>4, <2>5, <2>6, <2>7
<1>4a. CASE AddAbort
  BY <1>4a, DyingKeepsInv DEF AddAbort, Statuses
<1>5. CASE AddTally
  <2> USE <1>5 DEF AddTally
  <2>1. UNCHANGED listVars
    BY DEF queueVars, listVars
  <2>2. TypeOK'
    <3>1. stats' \in [Counters -> CLong]
      BY BumpType DEF Counters, TallyAdd, TypeOK, QueueTypeOK
    <3> QED
      BY <2>1, <3>1 DEF TypeOK, QueueTypeOK, ListTypeOK, ProgramTypeOK, ControlTypeOK, WriterPoints, TallyAdd, listVars
  <2>3. LockInv'
    BY LockKept DEF TypeOK, InsidePoints, FieldNames, Counters
  <2>4. ListInv' /\ CapacityInv'
    BY <2>1, ListFrame DEF ListInv, CapacityInv, TypeOK, ControlTypeOK
  <2>5. CountInv' /\ TestedInv' /\ AssertOnlyForNegativeCapacity'
    BY <2>1, ListFrame, MutualExclusion, Arithmetic
    DEF CountInv, TestedInv, AssertOnlyForNegativeCapacity, CapacityInv,
        ControlTypeOK, TypeOK, InsidePoints, TallyAdd
  <2>6. ReaderInv' /\ ValuesInv'
    BY <2>1, ListFrame
    DEF ReaderInv, ValuesInv, delivered, accepted, TypeOK, ControlTypeOK
  <2>7. BirthInv'
    BY BirthKept DEF TypeOK
  <2> QED
    BY <2>2, <2>3, <2>4, <2>5, <2>6, <2>7
<1>6. CASE AddUnlock
  <2> USE <1>6 DEF AddUnlock
  <2>1. UNCHANGED listVars
    BY DEF queueVars, listVars
  <2>2. TypeOK'
    BY NextIntType DEF TypeOK, QueueTypeOK, ListTypeOK, ProgramTypeOK, ControlTypeOK, WriterPoints, WriterAdvances
  <2>3. LockInv'
    BY LockReleased DEF TypeOK, InsidePoints, FieldNames, Counters
  <2>4. ListInv' /\ CapacityInv'
    BY <2>1, ListFrame DEF ListInv, CapacityInv, TypeOK, ControlTypeOK
  <2>5. CountInv' /\ TestedInv' /\ AssertOnlyForNegativeCapacity'
    BY MutualExclusion, Arithmetic
    DEF CountInv, TestedInv, AssertOnlyForNegativeCapacity, CapacityInv,
        ControlTypeOK, TypeOK, InsidePoints
  <2>6. ReaderInv' /\ ValuesInv'
    BY <2>1, ListFrame
    DEF ReaderInv, ValuesInv, delivered, accepted, TypeOK, ControlTypeOK, WriterAdvances
  <2>7. BirthInv'
    BY BirthKept DEF TypeOK
  <2> QED
    BY <2>2, <2>3, <2>4, <2>5, <2>6, <2>7
<1>7. CASE AddRefused
  <2> USE <1>7 DEF AddRefused
  <2>1. UNCHANGED listVars
    BY DEF queueVars, listVars
  <2>2. TypeOK'
    BY DEF TypeOK, QueueTypeOK, ListTypeOK, ProgramTypeOK, ControlTypeOK, WriterPoints
  <2>3. LockInv'
    BY LockReleased DEF TypeOK, InsidePoints, FieldNames, Counters
  <2>4. ListInv' /\ CapacityInv'
    BY <2>1, ListFrame DEF ListInv, CapacityInv, TypeOK, ControlTypeOK
  <2>5. CountInv' /\ TestedInv' /\ AssertOnlyForNegativeCapacity'
    BY MutualExclusion, Arithmetic
    DEF CountInv, TestedInv, AssertOnlyForNegativeCapacity, CapacityInv,
        ControlTypeOK, TypeOK, InsidePoints
  <2>6. ReaderInv' /\ ValuesInv'
    BY <2>1, ListFrame
    DEF ReaderInv, ValuesInv, delivered, accepted, TypeOK, ControlTypeOK
  <2>7. BirthInv'
    BY BirthKept DEF TypeOK
  <2> QED
    BY <2>2, <2>3, <2>4, <2>5, <2>6, <2>7
<1> QED
  BY <1>1, <1>2, <1>3, <1>4, <1>4a, <1>5, <1>6, <1>7 DEF Writer

LEMMA ReaderKeepsInv == Inv /\ Reader => Inv'
<1> SUFFICES ASSUME Inv, Reader PROVE Inv'
  OBVIOUS
<1> USE DEF Inv, Lock, Unlock, Step, Die, locals, queueVars, Threads, Workers
<1>1. CASE GetLock
  <2> USE <1>1 DEF GetLock
  <2>1. UNCHANGED listVars
    BY DEF queueVars, listVars
  <2>2. TypeOK'
    BY DEF TypeOK, QueueTypeOK, ListTypeOK, ProgramTypeOK, ControlTypeOK, ReaderPoints
  <2>3. LockInv'
    BY LockTaken DEF TypeOK, InsidePoints, FieldNames, Counters
  <2>4. ListInv' /\ CapacityInv'
    BY <2>1, ListFrame DEF ListInv, CapacityInv, TypeOK, ControlTypeOK
  <2>5. CountInv' /\ TestedInv' /\ AssertOnlyForNegativeCapacity'
    BY MutualExclusion, Arithmetic
    DEF CountInv, TestedInv, AssertOnlyForNegativeCapacity, CapacityInv,
        ControlTypeOK, TypeOK, InsidePoints
  <2>6. ReaderInv' /\ ValuesInv'
    BY <2>1, ListFrame
    DEF ReaderInv, ValuesInv, delivered, accepted, TypeOK, ControlTypeOK
  <2>7. BirthInv'
    BY BirthKept DEF TypeOK
  <2> QED
    BY <2>2, <2>3, <2>4, <2>5, <2>6, <2>7
<1>2. CASE GetTest
  <2> USE <1>2 DEF GetTest
  <2>1. UNCHANGED listVars /\ pc["reader"] = "test"
    OBVIOUS
  <2>2. /\ UNCHANGED <<maxCount, count, i, expected, got, snap, mutex>>
        /\ stats' = Bump("getAttempts")
    OBVIOUS
  <2>3. /\ UNCHANGED status
        /\ \/ count > 0 /\ Step("reader", "test", "take")
           \/ count = 0 /\ Step("reader", "test", "refuse")
    <3>1. count >= 0
      BY ONLY Inv, <2>1, NeverNegative DEF Inv
    <3> QED BY <3>1, Arithmetic
  <2> HIDE <1>2 DEF GetTest
  <2>4. TypeOK'
    <3>1. stats' \in [Counters -> CLong]
      BY <2>2, BumpType DEF Counters, TypeOK, QueueTypeOK
    <3> QED
      BY <2>1, <2>2, <2>3, <3>1
      DEF TypeOK, QueueTypeOK, ListTypeOK, ProgramTypeOK, ControlTypeOK,
          ReaderPoints, listVars
  <2>5. LockInv'
    BY <2>2, <2>3, LockKept DEF TypeOK, InsidePoints, FieldNames, Counters
  <2>6. /\ pc'["writer"] = pc["writer"] /\ pc'["reader"] \in {"take", "refuse"}
        /\ pc'["reader"] = "take" => count # 0
    BY <2>3, Arithmetic DEF TypeOK, ControlTypeOK
  <2>7. ListInv' /\ CapacityInv' /\ CountInv' /\ TestedInv'
    BY <2>1, <2>2, <2>6, ListFrame
    DEF ListInv, CapacityInv, CountInv, TestedInv
  <2>8. ReaderInv' /\ ValuesInv'
    BY <2>1, <2>2, <2>6, ListFrame DEF ReaderInv, ValuesInv, delivered, accepted
  <2>9. BirthInv' /\ AssertOnlyForNegativeCapacity'
    BY <2>3, BirthKept DEF TypeOK, AssertOnlyForNegativeCapacity
  <2> QED
    BY <2>4, <2>5, <2>7, <2>8, <2>9
<1>3. CASE GetTake
  <2> USE <1>3 DEF GetTake
  <2>1. /\ pc["writer"] \notin InsidePoints /\ count = Len(chain) /\ chain # <<>>
        /\ ListIntact
    BY MutualExclusion, Arithmetic, EmptySeq
    DEF CountInv, TestedInv, InsidePoints, ListInv
  <2>2. /\ ListTypeOK' /\ ListIntact' /\ first \in Node
        /\ Len(chain') = Len(chain) - 1
    BY <2>1, UnlinkRemoves DEF TypeOK, QueueTypeOK
  <2>3. TypeOK'
    BY <2>2 DEF TypeOK, QueueTypeOK, ListTypeOK, ProgramTypeOK, ControlTypeOK,
                ReaderPoints
  <2>4. LockInv'
    BY LockKept DEF TypeOK, InsidePoints
  <2>5. CapacityInv' /\ CountInv' /\ TestedInv' /\ AssertOnlyForNegativeCapacity'
    <3>1. maxCount' = maxCount /\ count' = count /\ status' = status
      OBVIOUS
    <3>2. pc'["writer"] \notin {"tally", "link"} /\ pc'["reader"] = "tally"
      BY <2>1 DEF InsidePoints, TypeOK, ControlTypeOK
    <3>3. CapacityInv'
      BY <2>2, <3>1, Arithmetic DEF CapacityInv
    <3>4. CountInv'
      <4>1. count' = Len(chain') + 1
        BY <2>1, <2>2, <3>1, Arithmetic
      <4> HIDE DEF GetTake
      <4> QED BY <3>2, <4>1, <2>2, Arithmetic DEF CountInv
    <3> QED
      BY <3>1, <3>2, <3>3, <3>4 DEF TestedInv, AssertOnlyForNegativeCapacity
  <2>6. ReaderInv' /\ ValuesInv'
    <3>1. delivered = expected /\ delivered' = NextInt(got') /\ accepted' = accepted
      BY DEF accepted, delivered, TypeOK, ControlTypeOK
    <3>2. ValuesBetween(expected, accepted)
      BY <3>1 DEF ValuesInv
    <3>3. got' = expected
      BY <2>1, <3>2, UnlinkShortensValues DEF TypeOK, QueueTypeOK
    <3>4. ValuesInv'
      BY <2>1, <3>1, <3>2, <3>3, UnlinkShortensValues
      DEF ValuesInv, ValuesBetween, TypeOK, QueueTypeOK
    <3> QED
      BY <3>3, <3>4 DEF ReaderInv
  <2>7. BirthInv'
    BY BirthKept DEF TypeOK
  <2> QED
    BY <2>2, <2>3, <2>4, <2>5, <2>6, <2>7 DEF ListInv
<1>4. CASE GetTally
  <2> USE <1>4 DEF GetTally
  <2>1. UNCHANGED listVars
    BY DEF queueVars, listVars
  <2>2. TypeOK'
    <3>1. stats' \in [Counters -> CLong]
      BY BumpType DEF Counters, TallyGet, TypeOK, QueueTypeOK
    <3> QED
      BY <2>1, <3>1 DEF TypeOK, QueueTypeOK, ListTypeOK, ProgramTypeOK, ControlTypeOK, ReaderPoints, TallyGet, listVars
  <2>3. LockInv'
    BY LockKept DEF TypeOK, InsidePoints, FieldNames, Counters
  <2>4. ListInv' /\ CapacityInv'
    BY <2>1, ListFrame DEF ListInv, CapacityInv, TypeOK, ControlTypeOK
  <2>5. CountInv' /\ TestedInv' /\ AssertOnlyForNegativeCapacity'
    BY <2>1, ListFrame, MutualExclusion, Arithmetic
    DEF CountInv, TestedInv, AssertOnlyForNegativeCapacity, CapacityInv,
        ControlTypeOK, TypeOK, InsidePoints, TallyGet
  <2>6. ReaderInv' /\ ValuesInv'
    BY <2>1, ListFrame
    DEF ReaderInv, ValuesInv, delivered, accepted, TypeOK, ControlTypeOK
  <2>7. BirthInv'
    BY BirthKept DEF TypeOK
  <2> QED
    BY <2>2, <2>3, <2>4, <2>5, <2>6, <2>7
<1>5. CASE GetUnlock
  <2> USE <1>5 DEF GetUnlock
  <2>1. UNCHANGED listVars
    BY DEF queueVars, listVars
  <2>2. TypeOK'
    BY DEF TypeOK, QueueTypeOK, ListTypeOK, ProgramTypeOK, ControlTypeOK, ReaderPoints
  <2>3. LockInv'
    BY LockReleased DEF TypeOK, InsidePoints, FieldNames, Counters
  <2>4. ListInv' /\ CapacityInv'
    BY <2>1, ListFrame DEF ListInv, CapacityInv, TypeOK, ControlTypeOK
  <2>5. CountInv' /\ TestedInv' /\ AssertOnlyForNegativeCapacity'
    BY MutualExclusion, Arithmetic
    DEF CountInv, TestedInv, AssertOnlyForNegativeCapacity, CapacityInv,
        ControlTypeOK, TypeOK, InsidePoints
  <2>6. ReaderInv' /\ ValuesInv'
    BY <2>1, ListFrame
    DEF ReaderInv, ValuesInv, delivered, accepted, TypeOK, ControlTypeOK
  <2>7. BirthInv'
    BY BirthKept DEF TypeOK
  <2> QED
    BY <2>2, <2>3, <2>4, <2>5, <2>6, <2>7
<1>6. CASE GetRefused
  <2> USE <1>6 DEF GetRefused
  <2>1. UNCHANGED listVars
    BY DEF queueVars, listVars
  <2>2. TypeOK'
    BY DEF TypeOK, QueueTypeOK, ListTypeOK, ProgramTypeOK, ControlTypeOK, ReaderPoints
  <2>3. LockInv'
    BY LockReleased DEF TypeOK, InsidePoints, FieldNames, Counters
  <2>4. ListInv' /\ CapacityInv'
    BY <2>1, ListFrame DEF ListInv, CapacityInv, TypeOK, ControlTypeOK
  <2>5. CountInv' /\ TestedInv' /\ AssertOnlyForNegativeCapacity'
    BY MutualExclusion, Arithmetic
    DEF CountInv, TestedInv, AssertOnlyForNegativeCapacity, CapacityInv,
        ControlTypeOK, TypeOK, InsidePoints
  <2>6. ReaderInv' /\ ValuesInv'
    BY <2>1, ListFrame
    DEF ReaderInv, ValuesInv, delivered, accepted, TypeOK, ControlTypeOK
  <2>7. BirthInv'
    BY BirthKept DEF TypeOK
  <2> QED
    BY <2>2, <2>3, <2>4, <2>5, <2>6, <2>7
<1>7. CASE GetCheck
  <2> USE <1>7 DEF GetCheck
  <2>1. UNCHANGED listVars
    BY DEF queueVars, listVars
  <2>2. TypeOK'
    BY NextIntType DEF TypeOK, QueueTypeOK, ListTypeOK, ProgramTypeOK, ControlTypeOK, ReaderPoints, ReaderChecks
  <2>3. LockInv'
    BY LockKept DEF TypeOK, InsidePoints, FieldNames, Counters
  <2>4. ListInv' /\ CapacityInv'
    BY <2>1, ListFrame DEF ListInv, CapacityInv, TypeOK, ControlTypeOK
  <2>5. CountInv' /\ TestedInv' /\ AssertOnlyForNegativeCapacity'
    BY MutualExclusion, Arithmetic
    DEF CountInv, TestedInv, AssertOnlyForNegativeCapacity, CapacityInv,
        ControlTypeOK, TypeOK, InsidePoints
  <2>6. ReaderInv' /\ ValuesInv'
    BY <2>1, ListFrame
    DEF ReaderInv, ValuesInv, delivered, accepted, TypeOK, ControlTypeOK, ReaderChecks
  <2>7. BirthInv'
    BY BirthKept DEF TypeOK
  <2> QED
    BY <2>2, <2>3, <2>4, <2>5, <2>6, <2>7
<1> QED
  BY <1>1, <1>2, <1>3, <1>4, <1>5, <1>6, <1>7, LocksFreedQueueKeepsInv DEF Reader

LEMMA MonitorKeepsInv == Inv /\ Monitor => Inv'
<1> SUFFICES ASSUME Inv, Monitor PROVE Inv'
  OBVIOUS
<1> USE DEF Inv, Lock, Unlock, Step, Die, locals, queueVars, Threads, Workers
<1>1. CASE StatsLock
  <2> USE <1>1 DEF StatsLock
  <2>1. UNCHANGED listVars
    BY DEF queueVars, listVars
  <2>2. TypeOK'
    BY DEF TypeOK, QueueTypeOK, ListTypeOK, ProgramTypeOK, ControlTypeOK, MonitorPoints, FieldNames, Fields
  <2>3. LockInv'
    BY LockTaken DEF Fields, TypeOK, InsidePoints, FieldNames, Counters
  <2>4. ListInv' /\ CapacityInv'
    BY <2>1, ListFrame DEF ListInv, CapacityInv, TypeOK, ControlTypeOK
  <2>5. CountInv' /\ TestedInv' /\ AssertOnlyForNegativeCapacity'
    BY MutualExclusion, Arithmetic
    DEF CountInv, TestedInv, AssertOnlyForNegativeCapacity, CapacityInv,
        ControlTypeOK, TypeOK, InsidePoints
  <2>6. ReaderInv' /\ ValuesInv'
    BY <2>1, ListFrame
    DEF ReaderInv, ValuesInv, delivered, accepted, TypeOK, ControlTypeOK
  <2>7. BirthInv'
    BY BirthKept DEF Fields, TypeOK
  <2> QED
    BY <2>2, <2>3, <2>4, <2>5, <2>6, <2>7
<1>2. CASE StatsRead
  <2> USE <1>2 DEF StatsRead
  <2>1. UNCHANGED listVars
    BY DEF queueVars, listVars
  <2>2. PICK k \in 1 .. 5 :
          /\ Step("monitor", Fields[k], IF k = 5 THEN "unlock" ELSE Fields[k + 1])
          /\ ReadField(k)
    OBVIOUS
  <2>3. /\ Fields[k] \in FieldNames
        /\ k # 5 => Fields[k + 1] \in FieldNames
    BY DEF Fields, FieldNames, Counters
  <2>4. TypeOK'
    <3>1. snap' \in [FieldNames -> Int]
      BY <2>2, <2>3, Arithmetic
      DEF ReadField, CLong, FieldNames, TypeOK, QueueTypeOK, ProgramTypeOK
    <3> QED
      BY <2>1, <2>2, <2>3, <3>1
      DEF TypeOK, QueueTypeOK, ListTypeOK, ProgramTypeOK, ControlTypeOK,
          MonitorPoints, listVars
  <2>5. LockInv'
    BY <2>2, <2>3, LockKept DEF TypeOK, InsidePoints
  <2>6. ListInv' /\ CapacityInv'
    BY <2>1, ListFrame DEF ListInv, CapacityInv, TypeOK, ControlTypeOK
  <2>7. CountInv' /\ TestedInv' /\ AssertOnlyForNegativeCapacity'
    BY MutualExclusion, Arithmetic
    DEF CountInv, TestedInv, AssertOnlyForNegativeCapacity, CapacityInv,
        ControlTypeOK, TypeOK, InsidePoints
  <2>8. ReaderInv' /\ ValuesInv'
    BY <2>1, ListFrame
    DEF ReaderInv, ValuesInv, delivered, accepted, TypeOK, ControlTypeOK
  <2>9. BirthInv'
    BY <2>2, <2>3, BirthKept DEF TypeOK, FieldNames, Counters
  <2> QED
    BY <2>4, <2>5, <2>6, <2>7, <2>8, <2>9
<1>3. CASE StatsUnlock
  <2> USE <1>3 DEF StatsUnlock
  <2>1. UNCHANGED listVars
    BY DEF queueVars, listVars
  <2>2. TypeOK'
    BY DEF TypeOK, QueueTypeOK, ListTypeOK, ProgramTypeOK, ControlTypeOK, MonitorPoints
  <2>3. LockInv'
    BY LockReleased DEF TypeOK, InsidePoints, FieldNames, Counters
  <2>4. ListInv' /\ CapacityInv'
    BY <2>1, ListFrame DEF ListInv, CapacityInv, TypeOK, ControlTypeOK
  <2>5. CountInv' /\ TestedInv' /\ AssertOnlyForNegativeCapacity'
    BY MutualExclusion, Arithmetic
    DEF CountInv, TestedInv, AssertOnlyForNegativeCapacity, CapacityInv,
        ControlTypeOK, TypeOK, InsidePoints
  <2>6. ReaderInv' /\ ValuesInv'
    BY <2>1, ListFrame
    DEF ReaderInv, ValuesInv, delivered, accepted, TypeOK, ControlTypeOK
  <2>7. BirthInv'
    BY BirthKept DEF TypeOK
  <2> QED
    BY <2>2, <2>3, <2>4, <2>5, <2>6, <2>7
<1>4. CASE StatsPrint
  <2> USE <1>4 DEF StatsPrint
  <2>1. UNCHANGED listVars
    BY DEF queueVars, listVars
  <2>2. TypeOK'
    BY DEF TypeOK, QueueTypeOK, ListTypeOK, ProgramTypeOK, ControlTypeOK, MonitorPoints, NoSnap
  <2>3. LockInv'
    BY LockKept DEF TypeOK, InsidePoints, FieldNames, Counters
  <2>4. ListInv' /\ CapacityInv'
    BY <2>1, ListFrame DEF ListInv, CapacityInv, TypeOK, ControlTypeOK
  <2>5. CountInv' /\ TestedInv' /\ AssertOnlyForNegativeCapacity'
    BY MutualExclusion, Arithmetic
    DEF CountInv, TestedInv, AssertOnlyForNegativeCapacity, CapacityInv,
        ControlTypeOK, TypeOK, InsidePoints
  <2>6. ReaderInv' /\ ValuesInv'
    BY <2>1, ListFrame
    DEF ReaderInv, ValuesInv, delivered, accepted, TypeOK, ControlTypeOK
  <2>7. BirthInv'
    BY BirthKept DEF TypeOK
  <2> QED
    BY <2>2, <2>3, <2>4, <2>5, <2>6, <2>7
<1> QED
  BY <1>1, <1>2, <1>3, <1>4, LocksFreedQueueKeepsInv DEF Monitor

(* What main turns to once it has created t. *)
Successor(t) ==
  {nxt \in {"reader", "writer", "join"} :
     \/ t = "monitor" /\ nxt = "reader"
     \/ t = "reader" /\ nxt = "writer"
     \/ t = "writer" /\ nxt = "join"}

LEMMA MainKeepsInv == Inv /\ Main => Inv'
<1> SUFFICES ASSUME Inv, Main PROVE Inv'
  OBVIOUS
<1> USE DEF Inv, Main, locals, queueVars, Threads, Workers
<1>1. UNCHANGED <<listVars, maxCount, count, stats, i, expected, got, snap, mutex>>
  BY DEF listVars
<1>2. PICK t \in Workers :
        CreateFails(t) \/ \E nxt \in Successor(t) : Create(t, nxt, "lock")
  BY DEF MainStep, Successor
<1>3. CASE CreateFails(t)
  BY <1>3, DyingKeepsInv DEF CreateFails, Die, Statuses
<1>4. ASSUME NEW nxt \in Successor(t), Create(t, nxt, "lock")
      PROVE  Inv'
  <2>1. pc[t] = "unborn" /\ pc["main"] = t
    BY <1>4 DEF Create, BirthInv
  <2>2. /\ pc' = [pc EXCEPT !["main"] = nxt, ![t] = "lock"]
        /\ status' = "running"
    BY <1>4 DEF Create
  <2> HIDE DEF Main
  <2>3. TypeOK'
    BY <1>1, <2>2
    DEF TypeOK, QueueTypeOK, ListTypeOK, ProgramTypeOK, ControlTypeOK, listVars, Statuses,
        WriterPoints, ReaderPoints, MonitorPoints, MainPoints, Successor
  <2>4. BirthInv'
    BY <2>1, <2>2 DEF BirthInv, Successor, TypeOK, ControlTypeOK
  <2>5. /\ \A u \in Workers \ {t} : pc'[u] = pc[u]
        /\ pc'[t] = "lock"
    BY <2>1, <2>2 DEF TypeOK, ControlTypeOK
  <2>6. LockInv'
    BY <1>1, <2>1, <2>5 DEF LockInv, InsidePoints, FieldNames, Counters
  <2>7. TestedInv' /\ ReaderInv' /\ accepted' = accepted /\ delivered' = delivered
    BY <1>1, <2>1, <2>5 DEF TestedInv, ReaderInv, accepted, delivered
  <2>8. CountInv'
    BY <1>1, <2>1, <2>5, ListFrame DEF CountInv
  <2>9. ListInv' /\ CapacityInv' /\ ValuesInv'
    BY <1>1, <2>1, <2>5, <2>7, ListFrame DEF ListInv, CapacityInv, ValuesInv
  <2> QED
    BY <1>1, <2>2, <2>3, <2>4, <2>6, <2>7, <2>8, <2>9
    DEF AssertOnlyForNegativeCapacity
<1> QED
  BY <1>2, <1>3, <1>4

-----------------------------------------------------------------------------

LEMMA NextKeepsInv == Inv /\ [Next]_vars => Inv'
<1> SUFFICES ASSUME Inv, [Next]_vars PROVE Inv'
  OBVIOUS
<1>1. CASE UNCHANGED vars
  <2>1. UNCHANGED <<listVars, maxCount, count, stats, pc, i, expected, got, snap,
                    status, mutex>>
    BY <1>1 DEF vars, queueVars, listVars, programVars
  <2>2. TypeOK'
    BY <2>1 DEF Inv, TypeOK, QueueTypeOK, ListTypeOK, ProgramTypeOK, ControlTypeOK,
                listVars
  <2>3. LockInv' /\ TestedInv' /\ ReaderInv' /\ BirthInv'
    BY <2>1 DEF Inv, LockInv, TestedInv, ReaderInv, BirthInv
  <2>4. ListInv' /\ CapacityInv' /\ CountInv' /\ ValuesInv'
    BY <2>1, ListFrame
    DEF Inv, ListInv, CapacityInv, CountInv, ValuesInv, delivered, accepted
  <2> QED
    BY <2>1, <2>2, <2>3, <2>4 DEF Inv, AssertOnlyForNegativeCapacity
<1> QED
  BY <1>1, WriterKeepsInv, ReaderKeepsInv, MonitorKeepsInv, MainKeepsInv DEF Next

(* The strengthening of the properties below is an invariant. *)
THEOREM Invariance == Spec => []Inv
BY Initially, NextKeepsInv, PTL DEF Spec

-----------------------------------------------------------------------------

(* Every variable keeps its type: no counter leaves its width, no pointer  *)
(* points outside the heap's blocks, every thread is where its routine is. *)
THEOREM TypeCorrect == Spec => []TypeOK
<1>1. Inv => TypeOK
  BY DEF Inv
<1> QED
  BY <1>1, Invariance, PTL

(* The reader's check never fires (main-mutex.c:54), for any capacity, any *)
(* number of operations and any width of int.                              *)
THEOREM SequenceIsRead == Spec => []ReaderSeesSequence
<1>1. Inv => ReaderSeesSequence
  BY DEF Inv, ReaderInv, ReaderSeesSequence
<1> QED
  BY <1>1, Invariance, PTL

(* The list is well formed and count is its length, except where queueAdd  *)
(* or queueGet is just about to update count.                              *)
THEOREM ListIsConsistent == Spec => []ListAgreesWithCount
<1>1. Inv => ListAgreesWithCount
  BY DEF Inv, ListInv, CountInv, ListAgreesWithCount
<1> QED
  BY <1>1, Invariance, PTL

(* queueAdd's assertion (queue-mutex-impl.c:100) holds for every capacity  *)
(* that is not negative, and queueGet's (:135) for every capacity.         *)
THEOREM AssertionHolds == Spec => []AssertOnlyForNegativeCapacity
<1>1. Inv => AssertOnlyForNegativeCapacity
  BY DEF Inv
<1> QED
  BY <1>1, Invariance, PTL

-----------------------------------------------------------------------------
(* The mutex queue implements the bounded queue: linking a node is a Put,  *)
(* unlinking one is a Take, and no other step is visible.                  *)

LEMMA InitRefines == Init => Fifo!Init
<1> SUFFICES ASSUME Init PROVE Fifo!Init
  OBVIOUS
<1>1. Len(chain) = 0
  BY EmptySeq DEF Init, QueueInit
<1>2. contents = <<>>
  BY <1>1 DEF contents
<1> QED
  BY <1>2 DEF Init, QueueInit, ProgramInit, Fifo!Init, accepted, delivered,
              Threads, Workers

LEMMA NextRefines == Inv /\ [Next]_vars => [Fifo!Next]_(Fifo!vars)
<1> SUFFICES ASSUME Inv, [Next]_vars PROVE [Fifo!Next]_(Fifo!vars)
  OBVIOUS
<1>1. ASSUME UNCHANGED listVars, UNCHANGED <<maxCount, accepted, delivered>>
      PROVE  UNCHANGED Fifo!vars
  BY <1>1, ContentsFrame DEF Fifo!vars
<1>2. CASE AddLink
  <2>1. PICK n \in Node \ heap : Link(n, i)
    BY <1>2 DEF AddLink
  <2>2. ListTypeOK /\ ListIntact /\ i \in CInt
    BY <1>2 DEF Inv, ListInv, TypeOK, QueueTypeOK, ProgramTypeOK, AddLink, Step
  <2>3. contents' = Append(contents, i)
    BY <2>1, <2>2, LinkContents
  <2>4. Len(contents) < maxCount
    <3>1. pc["writer"] = "link"
      BY <1>2 DEF AddLink, Step
    <3>2. count = Len(chain) /\ count < maxCount
      BY <3>1, CountExact DEF Inv, TestedInv
    <3>3. Len(contents) = Len(chain)
      BY <2>2, ContentsType DEF contents, ListTypeOK
    <3> QED
      BY <3>2, <3>3
  <2>5. /\ accepted = i /\ accepted' = NextInt(i)
        /\ delivered' = delivered /\ maxCount' = maxCount
    BY <1>2 DEF AddLink, Step, locals, accepted, delivered, Inv, TypeOK,
                ControlTypeOK, Threads, Workers
  <2> QED
    BY <2>3, <2>4, <2>5 DEF Fifo!Next, Fifo!Put, Fifo!After, NextInt
<1>3. CASE GetTake
  <2>1. chain # <<>> /\ ListTypeOK /\ ListIntact
    <3>1. pc["reader"] = "take"
      BY <1>3 DEF GetTake, Step
    <3>2. count = Len(chain) /\ count # 0
      BY <3>1, CountExact DEF Inv, TestedInv
    <3>3. pc["writer"] # "abort"
      BY <3>1, MutualExclusion DEF Inv, InsidePoints, Workers
    <3> QED
      BY <3>2, <3>3, EmptySeq DEF Inv, ListInv, TypeOK, QueueTypeOK
  <2>2. /\ contents # <<>>
        /\ Head(contents) = got'
        /\ contents' = Tail(contents)
    BY <1>3, <2>1, UnlinkContents DEF GetTake
  <2>3. /\ accepted' = accepted /\ maxCount' = maxCount
        /\ delivered' = NextInt(got')
    BY <1>3 DEF GetTake, Step, accepted, delivered, Inv, TypeOK,
                ControlTypeOK, Threads, Workers
  <2> QED
    BY <2>2, <2>3 DEF Fifo!Next, Fifo!Take, Fifo!After, NextInt
<1>4. CASE Writer /\ ~ AddLink /\ ~ AddNoMemory
  <2>1. UNCHANGED listVars
    BY <1>4 DEF Writer, AddLock, AddTest, AddAbort, AddTally, AddUnlock,
                AddRefused, queueVars, listVars
  <2>2. UNCHANGED <<maxCount, accepted, delivered>>
    BY <1>4
    DEF Writer, AddLock, AddTest, AddAbort, AddTally, AddUnlock, AddRefused,
        queueVars, locals, Lock, Unlock, Step, Die, WriterAdvances,
        accepted, delivered, Inv, TypeOK, ControlTypeOK, Threads, Workers
  <2> QED
    BY <1>1, <2>1, <2>2
<1>4a. CASE AddNoMemory
  <2>1. UNCHANGED contents
    BY <1>4a DEF AddNoMemory, contents
  <2>2. UNCHANGED <<maxCount, accepted, delivered>>
    BY <1>4a
    DEF AddNoMemory, locals, Step, accepted, delivered, Inv, TypeOK,
        ControlTypeOK, Threads, Workers
  <2> QED
    BY <2>1, <2>2 DEF Fifo!vars
<1>5. CASE Reader /\ ~ GetTake
  <2>1. UNCHANGED listVars
    BY <1>5 DEF Reader, GetLock, GetTest, GetTally, GetUnlock, GetRefused,
                GetCheck, LocksFreedQueue, queueVars, listVars
  <2>2. UNCHANGED <<maxCount, accepted, delivered>>
    BY <1>5
    DEF Reader, GetLock, GetTest, GetTally, GetUnlock, GetRefused, GetCheck,
        LocksFreedQueue, queueVars, locals, Lock, Unlock, Step, Die,
        ReaderChecks, TallyGet,
        accepted, delivered, Inv, TypeOK, ControlTypeOK, Threads, Workers
  <2> QED
    BY <1>1, <2>1, <2>2
<1>6. CASE Monitor
  <2>1. UNCHANGED listVars
    BY <1>6 DEF Monitor, StatsLock, StatsRead, StatsUnlock, StatsPrint,
                LocksFreedQueue, queueVars, listVars
  <2>2. UNCHANGED <<maxCount, accepted, delivered>>
    BY <1>6
    DEF Monitor, StatsLock, StatsRead, StatsUnlock, StatsPrint,
        LocksFreedQueue, queueVars, locals, Lock, Unlock, Step, Die,
        accepted, delivered, Inv, TypeOK, ControlTypeOK, Threads, Workers
  <2> QED
    BY <1>1, <2>1, <2>2
<1>7. CASE Main
  <2>1. UNCHANGED listVars /\ UNCHANGED <<maxCount, i, expected, got>>
    BY <1>7 DEF Main, queueVars, locals, listVars
  <2>2. PICK t \in Workers :
          CreateFails(t) \/ \E nxt \in Successor(t) : Create(t, nxt, "lock")
    BY <1>7 DEF Main, MainStep, Successor, Workers
  <2>3. UNCHANGED <<accepted, delivered>>
    BY <2>1, <2>2
    DEF CreateFails, Die, Create, BirthInv, accepted, delivered, Inv, TypeOK,
        ControlTypeOK, Threads, Workers
  <2> QED
    BY <1>1, <2>1, <2>3
<1>8. CASE UNCHANGED vars
  <2>1. /\ UNCHANGED listVars
        /\ UNCHANGED <<maxCount, accepted, delivered>>
    BY <1>8 DEF vars, queueVars, programVars, listVars, accepted, delivered
  <2> QED
    BY <1>1, <2>1
<1> QED
  BY <1>2, <1>3, <1>4, <1>4a, <1>5, <1>6, <1>7, <1>8 DEF Next

(* The queue of the mutex variant is the bounded queue: what        *)
(* queueAdd accepts comes out of queueGet, in order, and never more than   *)
(* maxCount of it is inside.                                               *)
THEOREM Refinement == Spec => ImplementsFifo
BY InitRefines, NextRefines, Invariance, PTL DEF Spec, Fifo!Spec, ImplementsFifo

-----------------------------------------------------------------------------
(* The statistics, as long as the counters do not wrap.  An operation that *)
(* will succeed has been attempted; count is what was added less what was  *)
(* taken; the monitor's copies agree with the fields while it is inside.   *)

AttemptsInv ==
  /\ stats["addCount"] + (IF pc["writer"] \in {"link", "tally", "abort"} THEN 1 ELSE 0)
       <= stats["addAttempts"]
  /\ stats["getCount"] + (IF pc["reader"] \in {"take", "tally"} THEN 1 ELSE 0)
       <= stats["getAttempts"]
  /\ stats["getCount"] + count = stats["addCount"]
  /\ stats["addAttempts"] + (IF pc["writer"] = "test" THEN 1 ELSE 0) <= MaxAttempts
  /\ stats["getAttempts"] + (IF pc["reader"] = "test" THEN 1 ELSE 0) <= MaxAttempts

(* A failed assertion ends the process after the attempt was counted. *)
StatsInv == status = "running" => AttemptsInv

(* What queuePrintStats would copy now.                                    *)
FieldNow(f) == IF f = "count" THEN count ELSE stats[f]

(* The monitor has the mutex while it copies, so its copies are current.   *)
CopyInv ==
  /\ \A k \in 1 .. 5 : pc["monitor"] = Fields[k] =>
       \A j \in 1 .. k - 1 : snap[Fields[j]] = FieldNow(Fields[j])
  /\ pc["monitor"] = "unlock" => \A k \in 1 .. 5 : snap[Fields[k]] = FieldNow(Fields[k])

CountersInv == Inv /\ StatsInv /\ CopyInv /\ PrintedStatsConsistent

LEMMA CountersInitially == Init => StatsInv /\ CopyInv /\ PrintedStatsConsistent
<1> SUFFICES ASSUME Init PROVE StatsInv /\ CopyInv /\ PrintedStatsConsistent
  OBVIOUS
<1>1. /\ \A c \in Counters : stats[c] = 0
      /\ count = 0 /\ \A t \in Threads : pc[t] \in {"monitor", "unborn"}
  BY DEF Init, QueueInit, ProgramInit
<1>2. StatsInv
  BY <1>1, QueueProgramAssumption DEF StatsInv, AttemptsInv, Counters, Threads, Workers
<1>3. CopyInv /\ PrintedStatsConsistent
  BY <1>1 DEF CopyInv, PrintedStatsConsistent, Fields, Threads, Workers
<1> QED
  BY <1>2, <1>3

(* A step that counts nothing, and moves nobody over the counting. *)
LEMMA StatsFrame ==
  ASSUME StatsInv, UNCHANGED <<stats, count>>,
         status' = "running" => status = "running",
         pc["writer"] \in {"link", "tally", "abort"}
           <=> pc'["writer"] \in {"link", "tally", "abort"},
         pc["reader"] \in {"take", "tally"} <=> pc'["reader"] \in {"take", "tally"},
         pc["writer"] = "test" <=> pc'["writer"] = "test",
         pc["reader"] = "test" <=> pc'["reader"] = "test"
  PROVE  StatsInv'
BY DEF StatsInv, AttemptsInv

(* A step of another thread: the monitor's copies stay what they are, and  *)
(* the fields too if the monitor is inside.                                *)
LEMMA CopyFrame ==
  ASSUME CopyInv, PrintedStatsConsistent, UNCHANGED <<snap, maxCount>>,
         pc'["monitor"] = pc["monitor"],
         pc["monitor"] \in InsidePoints => UNCHANGED <<stats, count>>
  PROVE  CopyInv' /\ PrintedStatsConsistent'
<1>1. PrintedStatsConsistent'
  BY DEF PrintedStatsConsistent, Ahead
<1>2. CASE UNCHANGED <<stats, count>>
  BY <1>1, <1>2 DEF CopyInv, FieldNow
<1>3. CASE pc["monitor"] \notin InsidePoints
  BY <1>1, <1>3 DEF CopyInv, InsidePoints, Fields, FieldNames, Counters
<1> QED
  BY <1>2, <1>3

(* Counting an event while no counter can be at the end of its range. *)
LEMMA BumpCounts ==
  ASSUME stats \in [Counters -> CLong], NEW c \in Counters,
         MaxAttempts < LongRange, stats[c] < MaxAttempts, stats' = Bump(c)
  PROVE  /\ stats'[c] = stats[c] + 1
         /\ \A d \in Counters \ {c} : stats'[d] = stats[d]
         /\ \A d \in Counters : stats[d] \in Int
BY QueueTAssumption, QueueProgramAssumption DEF Bump, NextLong, CLong

LEMMA WriterKeepsCounters ==
  ASSUME MaxAttempts < LongRange, CountersInv, Writer
  PROVE  StatsInv' /\ CopyInv' /\ PrintedStatsConsistent'
<1>0. /\ ControlTypeOK /\ LockInv /\ Inv /\ StatsInv /\ CopyInv /\ PrintedStatsConsistent
      /\ stats \in [Counters -> CLong] /\ count \in Int
      /\ MaxAttempts \in Int
  BY QueueProgramAssumption DEF CountersInv, Inv, TypeOK, QueueTypeOK
<1>1. CASE AddTest
  <2>1. /\ pc["writer"] = "test" /\ stats' = Bump("addAttempts")
        /\ status = "running" /\ UNCHANGED <<count, snap, maxCount>>
        /\ \/ \E to \in {"link", "refuse"} : pc' = [pc EXCEPT !["writer"] = to]
           \/ pc' = pc /\ status' = "assertion_failed"
    BY <1>1 DEF AddTest, Step, Die, locals
  <2>2. /\ pc'["monitor"] = pc["monitor"] /\ pc'["reader"] = pc["reader"]
        /\ status' = "running" => pc'["writer"] \in {"link", "refuse"}
    BY <1>0, <2>1 DEF ControlTypeOK, Threads, Workers
  <2>3. pc["monitor"] \notin InsidePoints
    BY <1>0, <2>1, MutualExclusion DEF InsidePoints, Workers
  <2>4. /\ stats["addAttempts"] < MaxAttempts
        /\ stats["addCount"] <= stats["addAttempts"]
        /\ \A c \in Counters : stats[c] \in Int
    BY <1>0, <2>1, QueueTAssumption DEF StatsInv, AttemptsInv, CLong, Counters
  <2>5. /\ stats'["addAttempts"] = stats["addAttempts"] + 1
        /\ \A d \in Counters \ {"addAttempts"} : stats'[d] = stats[d]
    BY <1>0, <2>1, <2>4, BumpCounts DEF Counters
  <2>6. StatsInv'
    BY <1>0, <2>1, <2>2, <2>4, <2>5 DEF StatsInv, AttemptsInv, Counters
  <2> QED
    BY <1>0, <2>1, <2>2, <2>3, <2>6, CopyFrame
<1>2. CASE AddTally
  <2>1. /\ pc["writer"] = "tally" /\ stats' = Bump("addCount")
        /\ status = "running" /\ count' = count + 1 /\ UNCHANGED <<snap, maxCount>>
        /\ pc' = [pc EXCEPT !["writer"] = "unlock"]
    BY <1>0, <1>2 DEF AddTally, TallyAdd, Step, locals
  <2>2. /\ pc'["monitor"] = pc["monitor"] /\ pc'["reader"] = pc["reader"]
        /\ pc'["writer"] = "unlock"
    BY <1>0, <2>1 DEF ControlTypeOK, Threads, Workers
  <2>3. pc["monitor"] \notin InsidePoints
    BY <1>0, <2>1, MutualExclusion DEF InsidePoints, Workers
  <2>4. /\ stats["addCount"] + 1 <= stats["addAttempts"]
        /\ stats["addAttempts"] <= MaxAttempts
        /\ \A c \in Counters : stats[c] \in Int
    BY <1>0, <2>1, QueueTAssumption DEF StatsInv, AttemptsInv, CLong, Counters
  <2>5. /\ stats'["addCount"] = stats["addCount"] + 1
        /\ \A d \in Counters \ {"addCount"} : stats'[d] = stats[d]
    BY <1>0, <2>1, <2>4, BumpCounts DEF Counters
  <2>6. StatsInv'
    BY <1>0, <2>1, <2>2, <2>4, <2>5 DEF StatsInv, AttemptsInv, Counters
  <2> QED
    BY <1>0, <2>1, <2>2, <2>3, <2>6, CopyFrame
<1>3. CASE AddLock
  <2>1. /\ pc["writer"] = "lock" /\ stats["addAttempts"] < MaxAttempts
        /\ pc' = [pc EXCEPT !["writer"] = "test"]
        /\ UNCHANGED <<stats, count, snap, maxCount, status>>
    BY <1>3 DEF AddLock, Lock, Step, locals, queueVars
  <2>2. /\ pc'["monitor"] = pc["monitor"] /\ pc'["reader"] = pc["reader"]
        /\ pc'["writer"] = "test"
    BY <1>0, <2>1 DEF ControlTypeOK, Threads, Workers
  <2>3. \A c \in Counters : stats[c] \in Int
    BY <1>0, QueueTAssumption DEF CLong
  <2>4. StatsInv'
    BY <1>0, <2>1, <2>2, <2>3 DEF StatsInv, AttemptsInv, Counters
  <2> QED
    BY <1>0, <2>1, <2>2, <2>4, CopyFrame
<1>4. CASE ~ AddTest /\ ~ AddTally /\ ~ AddLock
  <2>1. UNCHANGED <<stats, count, snap, maxCount>> /\ status = "running"
    BY <1>4 DEF Writer, Unlock, Step, Die, AddLink, AddNoMemory, AddAbort,
                AddUnlock, AddRefused, queueVars, locals
  <2>2. \/ /\ pc["writer"] \in {"unlock", "refuse"}
           /\ pc' = [pc EXCEPT !["writer"] = "lock"]
        \/ /\ pc["writer"] = "link"
           /\ \E to \in {"tally", "abort"} : pc' = [pc EXCEPT !["writer"] = to]
        \/ pc' = pc
    BY <1>4 DEF Writer, Unlock, Step, Die, AddLink, AddNoMemory, AddAbort,
                AddUnlock, AddRefused
  <2>3. /\ pc'["monitor"] = pc["monitor"] /\ pc'["reader"] = pc["reader"]
        /\ pc["writer"] \in {"link", "tally", "abort"}
           <=> pc'["writer"] \in {"link", "tally", "abort"}
        /\ pc["writer"] = "test" <=> pc'["writer"] = "test"
    BY <1>0, <2>2 DEF ControlTypeOK, Threads, Workers
  <2> QED
    BY <1>0, <2>1, <2>3, StatsFrame, CopyFrame
<1> QED
  BY <1>1, <1>2, <1>3, <1>4

LEMMA ReaderKeepsCounters ==
  ASSUME MaxAttempts < LongRange, CountersInv, Reader
  PROVE  StatsInv' /\ CopyInv' /\ PrintedStatsConsistent'
<1>0. /\ ControlTypeOK /\ LockInv /\ Inv /\ StatsInv /\ CopyInv /\ PrintedStatsConsistent
      /\ stats \in [Counters -> CLong] /\ count \in Int
      /\ MaxAttempts \in Int
  BY QueueProgramAssumption DEF CountersInv, Inv, TypeOK, QueueTypeOK
<1>1. CASE GetTest
  <2>1. /\ pc["reader"] = "test" /\ stats' = Bump("getAttempts")
        /\ status = "running" /\ UNCHANGED <<count, snap, maxCount>>
        /\ \E to \in {"take", "refuse"} : pc' = [pc EXCEPT !["reader"] = to]
    <3>1. pc["reader"] = "test"
      BY <1>1 DEF GetTest, Step, Die
    <3>2. count >= 0
      BY <1>0, <3>1, NeverNegative DEF Inv
    <3> QED
      BY <1>0, <1>1, <3>1, <3>2 DEF GetTest, Step, Die, locals
  <2>2. /\ pc'["monitor"] = pc["monitor"] /\ pc'["writer"] = pc["writer"]
        /\ pc'["reader"] \in {"take", "refuse"}
    BY <1>0, <2>1 DEF ControlTypeOK, Threads, Workers
  <2>3. pc["monitor"] \notin InsidePoints
    BY <1>0, <2>1, MutualExclusion DEF InsidePoints, Workers
  <2>4. /\ stats["getAttempts"] < MaxAttempts
        /\ stats["getCount"] <= stats["getAttempts"]
        /\ \A c \in Counters : stats[c] \in Int
    BY <1>0, <2>1, QueueTAssumption DEF StatsInv, AttemptsInv, CLong, Counters
  <2>5. /\ stats'["getAttempts"] = stats["getAttempts"] + 1
        /\ \A d \in Counters \ {"getAttempts"} : stats'[d] = stats[d]
    BY <1>0, <2>1, <2>4, BumpCounts DEF Counters
  <2>6. StatsInv'
    BY <1>0, <2>1, <2>2, <2>4, <2>5 DEF StatsInv, AttemptsInv, Counters
  <2> QED
    BY <1>0, <2>1, <2>2, <2>3, <2>6, CopyFrame
<1>2. CASE GetTally
  <2>1. /\ pc["reader"] = "tally" /\ stats' = Bump("getCount")
        /\ status = "running" /\ count' = count - 1 /\ UNCHANGED <<snap, maxCount>>
        /\ pc' = [pc EXCEPT !["reader"] = "unlock"]
    BY <1>0, <1>2 DEF GetTally, TallyGet, Step, locals
  <2>2. /\ pc'["monitor"] = pc["monitor"] /\ pc'["writer"] = pc["writer"]
        /\ pc'["reader"] = "unlock"
    BY <1>0, <2>1 DEF ControlTypeOK, Threads, Workers
  <2>3. pc["monitor"] \notin InsidePoints
    BY <1>0, <2>1, MutualExclusion DEF InsidePoints, Workers
  <2>4. /\ stats["getCount"] + 1 <= stats["getAttempts"]
        /\ stats["getAttempts"] <= MaxAttempts
        /\ \A c \in Counters : stats[c] \in Int
    BY <1>0, <2>1, QueueTAssumption DEF StatsInv, AttemptsInv, CLong, Counters
  <2>5. /\ stats'["getCount"] = stats["getCount"] + 1
        /\ \A d \in Counters \ {"getCount"} : stats'[d] = stats[d]
    BY <1>0, <2>1, <2>4, BumpCounts DEF Counters
  <2>6. StatsInv'
    BY <1>0, <2>1, <2>2, <2>4, <2>5 DEF StatsInv, AttemptsInv, Counters
  <2> QED
    BY <1>0, <2>1, <2>2, <2>3, <2>6, CopyFrame
<1>3. CASE GetLock
  <2>1. /\ pc["reader"] = "lock" /\ stats["getAttempts"] < MaxAttempts
        /\ pc' = [pc EXCEPT !["reader"] = "test"]
        /\ UNCHANGED <<stats, count, snap, maxCount, status>>
    BY <1>3 DEF GetLock, Lock, Step, locals, queueVars
  <2>2. /\ pc'["monitor"] = pc["monitor"] /\ pc'["writer"] = pc["writer"]
        /\ pc'["reader"] = "test"
    BY <1>0, <2>1 DEF ControlTypeOK, Threads, Workers
  <2>3. \A c \in Counters : stats[c] \in Int
    BY <1>0, QueueTAssumption DEF CLong
  <2>4. StatsInv'
    BY <1>0, <2>1, <2>2, <2>3 DEF StatsInv, AttemptsInv, Counters
  <2> QED
    BY <1>0, <2>1, <2>2, <2>4, CopyFrame
<1>4. CASE ~ GetTest /\ ~ GetTally /\ ~ GetLock
  <2>1. UNCHANGED <<stats, count, snap, maxCount>> /\ status = "running"
    BY <1>4 DEF Reader, Unlock, Step, Die, GetTake, GetUnlock, GetRefused, GetCheck,
                LocksFreedQueue, queueVars, locals
  <2>2. \/ /\ pc["reader"] \in {"unlock", "refuse", "check"}
           /\ \E to \in {"lock", "check"} : pc' = [pc EXCEPT !["reader"] = to]
        \/ pc["reader"] = "take" /\ pc' = [pc EXCEPT !["reader"] = "tally"]
        \/ pc' = pc
    BY <1>4 DEF Reader, Unlock, Step, Die, GetTake, GetUnlock, GetRefused, GetCheck,
                LocksFreedQueue
  <2>3. /\ pc'["monitor"] = pc["monitor"] /\ pc'["writer"] = pc["writer"]
        /\ pc["reader"] \in {"take", "tally"} <=> pc'["reader"] \in {"take", "tally"}
        /\ pc["reader"] = "test" <=> pc'["reader"] = "test"
    BY <1>0, <2>2 DEF ControlTypeOK, Threads, Workers
  <2> QED
    BY <1>0, <2>1, <2>3, StatsFrame, CopyFrame
<1> QED
  BY <1>1, <1>2, <1>3, <1>4

(* The copies are complete, and taken at one time. *)
LEMMA CopiesAgree ==
  ASSUME Inv, AttemptsInv, pc["monitor"] = "unlock",
         \A k \in 1 .. 5 : snap[Fields[k]] = FieldNow(Fields[k])
  PROVE  /\ Ahead(snap["addCount"], snap["getCount"], snap["count"])
         /\ snap["addCount"] <= snap["addAttempts"]
         /\ snap["getCount"] <= snap["getAttempts"]
         /\ maxCount >= 0 => snap["count"] <= maxCount
<1>1. /\ snap["count"] = count
      /\ \A c \in Counters : snap[c] = stats[c] /\ stats[c] \in CLong
  <2>1. /\ snap[Fields[1]] = FieldNow(Fields[1]) /\ snap[Fields[2]] = FieldNow(Fields[2])
        /\ snap[Fields[3]] = FieldNow(Fields[3]) /\ snap[Fields[4]] = FieldNow(Fields[4])
        /\ snap[Fields[5]] = FieldNow(Fields[5])
    OBVIOUS
  <2> QED
    BY <2>1 DEF FieldNow, Fields, Counters, Inv, TypeOK, QueueTypeOK
<1>2. /\ pc["writer"] \notin {"link", "tally", "test"}
      /\ pc["reader"] \notin {"take", "tally", "test"}
  BY MutualExclusion DEF Inv, InsidePoints, Workers
<1>3. \A c \in Counters : snap[c] = stats[c] /\ stats[c] \in Int
  BY <1>1, QueueTAssumption DEF CLong
<1>4. count = Len(chain)
  BY <1>2, Arithmetic DEF Inv, CountInv
<1>5. maxCount >= 0 => snap["count"] <= maxCount
  BY <1>1, <1>4 DEF Inv, CapacityInv
<1>6. Ahead(snap["addCount"], snap["getCount"], snap["count"])
  BY <1>1, <1>3 DEF AttemptsInv, Ahead, Counters
<1> QED
  BY <1>2, <1>3, <1>5, <1>6 DEF AttemptsInv, Counters

LEMMA MonitorKeepsCounters ==
  CountersInv /\ Monitor => StatsInv' /\ CopyInv' /\ PrintedStatsConsistent'
<1> SUFFICES ASSUME CountersInv, Monitor
             PROVE  StatsInv' /\ CopyInv' /\ PrintedStatsConsistent'
  OBVIOUS
<1>0. /\ ControlTypeOK /\ LockInv /\ Inv /\ StatsInv /\ CopyInv
      /\ snap \in [FieldNames -> Int]
  BY DEF CountersInv, Inv, TypeOK, ProgramTypeOK
<1>1. UNCHANGED <<stats, count, maxCount>> /\ status = "running"
  BY DEF Monitor, StatsLock, StatsRead, StatsUnlock, StatsPrint, LocksFreedQueue,
         Lock, Unlock, Step, Die, queueVars
<1>2. \/ \E to : pc' = [pc EXCEPT !["monitor"] = to]
      \/ pc' = pc
  BY DEF Monitor, StatsLock, StatsRead, StatsUnlock, StatsPrint, LocksFreedQueue,
         Lock, Unlock, Step, Die
<1>3. pc'["writer"] = pc["writer"] /\ pc'["reader"] = pc["reader"]
  BY <1>0, <1>2 DEF ControlTypeOK, Threads, Workers
<1>4. StatsInv'
  BY <1>0, <1>1, <1>3, StatsFrame
<1>5. \A f : FieldNow(f)' = FieldNow(f)
  BY <1>1 DEF FieldNow
<1>6. CASE StatsLock
  <2>1. pc'["monitor"] = "count"
    BY <1>0, <1>6 DEF StatsLock, Lock, Step, Fields, ControlTypeOK, Threads, Workers
  <2> QED
    BY <1>4, <2>1 DEF CopyInv, PrintedStatsConsistent, Fields
<1>7. CASE StatsRead
  <2>1. PICK k \in 1 .. 5 :
          /\ Step("monitor", Fields[k], IF k = 5 THEN "unlock" ELSE Fields[k + 1])
          /\ ReadField(k)
    BY <1>7 DEF StatsRead
  <2>2. \A j, m \in 1 .. 5 : Fields[j] = Fields[m] => j = m
    BY DEF Fields
  <2>3. \A j \in 1 .. 5 : Fields[j] \in FieldNames /\ Fields[j] \notin {"unlock", "print"}
    BY DEF Fields, FieldNames, Counters
  <2>4. /\ pc["monitor"] = Fields[k]
        /\ pc'["monitor"] = IF k = 5 THEN "unlock" ELSE Fields[k + 1]
    BY <1>0, <2>1 DEF Step, ControlTypeOK, Threads, Workers
  <2>5. \A j \in 1 .. k - 1 : snap[Fields[j]] = FieldNow(Fields[j])
    BY <1>0, <2>4 DEF CopyInv
  <2>6. snap' = [snap EXCEPT ![Fields[k]] = FieldNow(Fields[k])]
    BY <2>1 DEF ReadField, FieldNow
  <2>7. \A j \in 1 .. k : snap'[Fields[j]] = FieldNow(Fields[j])
    BY <1>0, <2>2, <2>3, <2>5, <2>6
  <2>8. CASE k = 5
    <3>1. pc'["monitor"] = "unlock"
      BY <2>4, <2>8
    <3>2. CopyInv'
      BY <1>5, <2>3, <2>7, <2>8, <3>1 DEF CopyInv
    <3> QED
      BY <1>4, <3>1, <3>2 DEF PrintedStatsConsistent
  <2>9. CASE k # 5
    <3>1. pc'["monitor"] = Fields[k + 1] /\ k + 1 \in 1 .. 5
      BY <2>4, <2>9
    <3>2. CopyInv'
      BY <1>5, <2>2, <2>3, <2>7, <3>1 DEF CopyInv
    <3> QED
      BY <1>4, <2>3, <3>1, <3>2 DEF PrintedStatsConsistent
  <2> QED
    BY <2>8, <2>9
<1>8. CASE StatsUnlock
  <2>1. pc["monitor"] = "unlock" /\ pc'["monitor"] = "print" /\ snap' = snap
    BY <1>0, <1>8 DEF StatsUnlock, Unlock, Step, locals, ControlTypeOK, Threads, Workers
  <2>2. AttemptsInv /\ \A k \in 1 .. 5 : snap[Fields[k]] = FieldNow(Fields[k])
    BY <1>0, <1>1, <2>1 DEF StatsInv, CopyInv
  <2>3. PrintedStatsConsistent'
    BY <1>0, <1>1, <2>1, <2>2, CopiesAgree DEF PrintedStatsConsistent, Ahead
  <2>4. CopyInv'
    BY <2>1 DEF CopyInv, Fields
  <2> QED
    BY <1>4, <2>3, <2>4
<1>9. CASE StatsPrint
  <2>1. pc'["monitor"] = "lock"
    BY <1>0, <1>9 DEF StatsPrint, Step, ControlTypeOK, Threads, Workers
  <2> QED
    BY <1>4, <2>1 DEF CopyInv, PrintedStatsConsistent, Fields
<1>10. CASE LocksFreedQueue("monitor")
  <2>1. UNCHANGED <<pc, snap>>
    BY <1>10 DEF LocksFreedQueue, Die, locals
  <2>2. CopyInv' /\ PrintedStatsConsistent'
    BY <1>0, <1>1, <2>1, CopyFrame DEF CountersInv
  <2> QED
    BY <1>4, <2>2
<1> QED
  BY <1>6, <1>7, <1>8, <1>9, <1>10 DEF Monitor

LEMMA NextKeepsCounters ==
  ASSUME MaxAttempts < LongRange, CountersInv, [Next]_vars
  PROVE  CountersInv'
<1>0. /\ ControlTypeOK /\ Inv /\ StatsInv /\ CopyInv /\ PrintedStatsConsistent /\ BirthInv
      /\ Inv'
  BY NextKeepsInv DEF CountersInv, Inv, TypeOK
<1>1. CASE Main
  <2>1. UNCHANGED <<stats, count, snap, maxCount>> /\ status = "running"
    BY <1>1 DEF Main, MainStep, Create, CreateFails, Die, queueVars, locals
  <2>2. PICK t \in Workers :
          CreateFails(t) \/ \E nxt \in Successor(t) : Create(t, nxt, "lock")
    BY <1>1 DEF Main, MainStep, Successor, Workers
  <2>3. CASE CreateFails(t)
    BY <1>0, <2>1, <2>3, StatsFrame, CopyFrame DEF CreateFails, Die, CountersInv
  <2>4. ASSUME NEW nxt \in Successor(t), Create(t, nxt, "lock")
        PROVE  CountersInv'
    <3>1. pc[t] = "unborn" /\ pc' = [pc EXCEPT !["main"] = nxt, ![t] = "lock"]
      BY <1>0, <2>2, <2>4 DEF Create, BirthInv, Workers
    <3>2. \A u \in Workers : \/ pc'[u] = pc[u]
                             \/ pc[u] = "unborn" /\ pc'[u] = "lock"
      <4>1. pc'[t] = "lock" /\ \A u \in Workers \ {t} : pc'[u] = pc[u]
        BY <1>0, <2>2, <3>1 DEF ControlTypeOK, Threads, Workers
      <4> QED
        BY <2>2, <3>1, <4>1 DEF Workers
    <3>3. StatsInv'
      BY <1>0, <2>1, <3>2, StatsFrame DEF Workers
    <3>4. CopyInv' /\ PrintedStatsConsistent'
      <4>1. CASE pc'["monitor"] = pc["monitor"]
        BY <1>0, <2>1, <4>1, CopyFrame
      <4>2. CASE pc'["monitor"] = "lock"
        BY <4>2 DEF CopyInv, PrintedStatsConsistent, Fields
      <4> QED
        BY <3>2, <4>1, <4>2 DEF Workers
    <3> QED
      BY <1>0, <3>3, <3>4 DEF CountersInv
  <2> QED
    BY <2>2, <2>3, <2>4
<1>2. CASE UNCHANGED vars
  <2>1. UNCHANGED <<stats, count, snap, maxCount, pc, status>>
    BY <1>2 DEF vars, queueVars, programVars
  <2> QED
    BY <1>0, <2>1, StatsFrame, CopyFrame DEF CountersInv
<1> QED
  BY <1>0, <1>1, <1>2, WriterKeepsCounters, ReaderKeepsCounters, MonitorKeepsCounters
  DEF Next, CountersInv

(* What queuePrintStats prints was true of the queue at one moment, as     *)
(* long as there are not more attempts than a long can count: one that     *)
(* wraps can fall behind the number of successes.                          *)
THEOREM PrintedLinesAgree ==
  MaxAttempts < LongRange => (Spec => []PrintedStatsConsistent)
<1> SUFFICES ASSUME MaxAttempts < LongRange
             PROVE  Spec => []PrintedStatsConsistent
  OBVIOUS
<1>1. Init => CountersInv
  BY Initially, CountersInitially DEF CountersInv
<1>2. CountersInv /\ [Next]_vars => CountersInv'
  BY NextKeepsCounters
<1>3. CountersInv => PrintedStatsConsistent
  BY DEF CountersInv
<1> QED
  BY <1>1, <1>2, <1>3, PTL DEF Spec
-----------------------------------------------------------------------------
(* The queue with a spin lock.  Its lock is the mutex by another name, and *)
(* all its steps but three are steps of the mutex queue: GetLock has no    *)
(* bound on the attempts, GetTest does not count them and AddNoMemory      *)
(* destroys nothing.  So what is invariant there is invariant here, and    *)
(* the same steps are visible to the bounded queue.                        *)

Spin == INSTANCE SpinQueue WITH lock <- mutex

LEMMA SpinInit == Spin!Init <=> Init
BY
   DEF Spin!Init, Spin!M!Init, Spin!M!QueueInit, Spin!M!ProgramInit,
       Spin!M!Threads, Spin!M!Workers, Spin!M!NoSnap, Spin!M!FieldNames,
       Spin!M!Counters, Init, QueueInit, ProgramInit, Threads, Workers,
       NoSnap, FieldNames, Counters

(* What the spin lock queue takes over from the mutex queue.               *)
LEMMA SpinWriter == Spin!Writer => Writer \/ Spin!AddNoMemory
BY DEF Spin!Writer, Writer, Spin!M!AddLock, AddLock,
    Spin!M!AddTest, AddTest, Spin!M!AddLink, AddLink,
    Spin!M!AddTally, AddTally, Spin!M!AddUnlock, AddUnlock,
    Spin!M!AddRefused, AddRefused, Spin!M!Lock, Lock, Spin!M!Unlock, Unlock,
    Spin!M!Step, Step, Spin!M!Die, Die, Spin!M!Link, Link, Spin!M!TallyAdd,
    TallyAdd, Spin!M!WriterAdvances, WriterAdvances, Spin!M!Bump, Bump,
    Spin!M!NextInt, NextInt, Spin!M!NextLong, NextLong, Spin!M!queueVars,
    queueVars, Spin!M!listVars, listVars, Spin!M!locals, locals

LEMMA SpinMonitor == Spin!Monitor => Monitor
BY DEF Spin!Monitor, Monitor, Spin!M!StatsLock, StatsLock,
    Spin!M!StatsRead, StatsRead, Spin!M!StatsUnlock, StatsUnlock,
    Spin!M!StatsPrint, StatsPrint, Spin!M!Lock, Lock, Spin!M!Unlock, Unlock,
    Spin!M!Step, Step, Spin!M!ReadField, ReadField, Spin!M!Fields, Fields,
    Spin!M!FieldNames, FieldNames, Spin!M!Counters, Counters, Spin!M!NoSnap,
    NoSnap, Spin!M!queueVars, queueVars, Spin!M!listVars, listVars,
    Spin!M!locals, locals

LEMMA SpinMain == Spin!Main <=> Main
BY DEF Spin!Main, Spin!M!Main, Main, Spin!M!MainStep, MainStep, Spin!M!Create,
    Create, Spin!M!CreateFails, CreateFails, Spin!M!Die, Die, Spin!M!Workers,
    Workers, Spin!M!queueVars, queueVars, Spin!M!listVars, listVars,
    Spin!M!locals, locals

LEMMA SpinReader ==
  Spin!Reader <=> \/ Spin!GetLock \/ Spin!GetTest \/ GetTake \/ GetTally
                  \/ GetUnlock \/ GetRefused \/ GetCheck
BY DEF Spin!Reader, Spin!GetRefused, Spin!destroySpinlock, Spin!queueVars,
    Spin!locals, Spin!M!GetTake, GetTake, Spin!M!GetTally, GetTally,
    Spin!M!GetUnlock, GetUnlock, Spin!M!GetRefused, GetRefused,
    Spin!M!GetCheck, GetCheck, Spin!M!Unlock, Unlock, Spin!M!Step, Step,
    Spin!M!Unlink, Unlink, Spin!M!TallyGet, TallyGet, Spin!M!ReaderChecks,
    ReaderChecks, Spin!M!Bump, Bump, Spin!M!NextInt, NextInt, Spin!M!NextLong,
    NextLong, Spin!M!queueVars, queueVars, Spin!M!listVars, listVars,
    Spin!M!locals, locals

(* The steps of its own, and idling, keep the invariant and are not    *)
(* seen by the bounded queue.                                              *)
LEMMA SpinNoMemory ==
  ASSUME Inv, Spin!AddNoMemory
  PROVE  /\ Inv'
         /\ UNCHANGED <<listVars, maxCount, accepted, delivered>>
<1>1. UNCHANGED <<queueVars, pc, locals, mutex>> /\ status' = "out_of_memory"
  BY DEF Spin!AddNoMemory, Spin!Die, Spin!queueVars, Spin!locals, queueVars, locals
<1>2. Inv'
  BY <1>1, DyingKeepsInv DEF Statuses
<1> QED
  BY <1>1, <1>2 DEF queueVars, listVars, locals, accepted, delivered

LEMMA SpinOwnSteps ==
  ASSUME Inv, Spin!GetLock \/ Spin!GetTest
  PROVE  /\ Inv'
         /\ UNCHANGED <<listVars, maxCount, accepted, delivered>>
<1>0. Spin!GetTest => count >= 0
  <2>1. Spin!GetTest => pc["reader"] = "test"
    BY DEF Spin!GetTest, Spin!Step, Spin!Die
  <2> QED
    BY <2>1, NeverNegative DEF Inv
<1>1. UNCHANGED <<listVars, maxCount, count, stats, locals, status>>
  BY <1>0, Arithmetic DEF Spin!GetLock, Spin!GetTest, Spin!queueVars, Spin!locals,
         queueVars, listVars, locals, Inv
<1>2. \/ Lock("reader", "test")
      \/ /\ UNCHANGED mutex
         /\ \/ count # 0 /\ Step("reader", "test", "take")
            \/ count = 0 /\ Step("reader", "test", "refuse")
  BY <1>0, Arithmetic DEF Spin!GetLock, Spin!GetTest, Spin!createSpinlock,
         Spin!M!Lock, Spin!M!Step, Spin!Step, Lock, Step, Inv
<1>3. PICK from \in {"lock", "test"}, to \in {"test", "take", "refuse"} :
        Step("reader", from, to) /\ (to = "take" => count # 0)
  BY <1>2 DEF Lock
<1>4. /\ pc["reader"] = from /\ pc'["reader"] = to
      /\ pc'["writer"] = pc["writer"]
  BY <1>3 DEF Step, Inv, TypeOK, ControlTypeOK, Threads, Workers
<1>5. TypeOK'
  <2>1. ControlTypeOK'
    BY <1>3, <1>4
    DEF Step, Inv, TypeOK, ControlTypeOK, ReaderPoints, Threads, Workers
  <2>2. mutex' \in Workers \cup {NoOne}
    BY <1>2 DEF Lock, Workers, Inv, TypeOK
  <2> QED
    BY <1>1, <2>1, <2>2
    DEF Inv, TypeOK, QueueTypeOK, ListTypeOK, ProgramTypeOK, listVars, locals
<1>6. LockInv'
  <2>1. CASE Lock("reader", "test")
    BY <2>1, LockTaken DEF Inv, TypeOK, InsidePoints, Workers
  <2>2. CASE ~ Lock("reader", "test")
    BY <1>2, <2>2, LockKept DEF Inv, TypeOK, InsidePoints, Threads, Workers
  <2> QED
    BY <2>1, <2>2
<1>7. ListInv' /\ CapacityInv'
  BY <1>1, <1>4, ListFrame DEF Inv, ListInv, CapacityInv
<1>8. CountInv' /\ TestedInv' /\ ReaderInv' /\ AssertOnlyForNegativeCapacity'
  BY <1>1, <1>3, <1>4, ListFrame
  DEF Inv, CountInv, TestedInv, ReaderInv, AssertOnlyForNegativeCapacity, locals
<1>9. UNCHANGED <<accepted, delivered>>
  BY <1>1, <1>4 DEF accepted, delivered, locals
<1>10. ValuesInv'
  BY <1>1, <1>9, ListFrame DEF Inv, ValuesInv
<1>11. BirthInv'
  BY <1>3, BirthKept DEF Inv, TypeOK, Workers
<1> QED
  BY <1>1, <1>5, <1>6, <1>7, <1>8, <1>9, <1>10, <1>11 DEF Inv

LEMMA SpinSteps ==
  ASSUME [Spin!Next]_(Spin!vars)
  PROVE  [Next]_vars \/ Spin!GetLock \/ Spin!GetTest \/ Spin!AddNoMemory
<1>1. UNCHANGED Spin!vars => UNCHANGED vars
  BY DEF Spin!vars, vars, Spin!queueVars, queueVars, Spin!programVars, programVars
<1>2. Spin!Reader => Reader \/ Spin!GetLock \/ Spin!GetTest
  BY SpinReader DEF Reader
<1>3. CASE Spin!Next
  <2>1. \/ Spin!Main \/ Spin!Writer \/ Spin!Reader \/ Spin!Monitor
        \/ UNCHANGED Spin!vars
    BY <1>3 DEF Spin!Next
  <2> QED
    BY <1>1, <1>2, <2>1, SpinWriter, SpinMonitor, SpinMain DEF Next
<1> QED
  BY <1>1, <1>3

LEMMA SpinKeepsInv == Inv /\ [Spin!Next]_(Spin!vars) => Inv'
BY SpinSteps, SpinOwnSteps, SpinNoMemory, NextKeepsInv

LEMMA SpinNextRefines ==
  Inv /\ [Spin!Next]_(Spin!vars) => [Fifo!Next]_(Fifo!vars)
<1> SUFFICES ASSUME Inv, Spin!GetLock \/ Spin!GetTest \/ Spin!AddNoMemory
             PROVE  UNCHANGED Fifo!vars
  BY SpinSteps, NextRefines
<1> QED
  BY SpinOwnSteps, SpinNoMemory, ContentsFrame DEF Fifo!vars

(* The spin lock queue keeps the reader's sequence, the list and the       *)
(* assertion as the mutex queue does: its specification keeps the same     *)
(* inductive invariant.                                                    *)
THEOREM SpinInvariance == Spin!Spec => []Inv
BY SpinInit, Initially, SpinKeepsInv, PTL DEF Spin!Spec

(* The bounded queue both implement is the same.                           *)
LEMMA SpinFifo == Spin!ImplementsFifo <=> Fifo!Spec
BY DEF Spin!ImplementsFifo, Spin!M!ImplementsFifo,
    Spin!M!Fifo!Spec, Fifo!Spec, Spin!M!Fifo!Init, Fifo!Init,
    Spin!M!Fifo!Next, Fifo!Next, Spin!M!Fifo!vars, Fifo!vars,
    Spin!M!Fifo!Put, Fifo!Put, Spin!M!Fifo!Take, Fifo!Take,
    Spin!M!Fifo!After, Fifo!After, Spin!M!contents, contents,
    Spin!M!accepted, accepted, Spin!M!delivered, delivered,
    Spin!M!NextInt, NextInt

(* The queue of the spin lock variant is the bounded queue as well: what   *)
(* queueAdd accepts comes out of queueGet, in order and within maxCount.   *)
THEOREM SpinRefinement == Spin!Spec => Spin!ImplementsFifo
<1>1. Inv /\ [Spin!Next]_(Spin!vars) => [Fifo!Next]_(Fifo!vars)
  BY SpinNextRefines
<1>2. Spin!Spec => Fifo!Spec
  BY <1>1, SpinInit, InitRefines, SpinInvariance, PTL DEF Spin!Spec, Fifo!Spec
<1> QED
  BY <1>2, SpinFifo
=============================================================================
